---- MODULE Spec2Model ----
(***************************************************************************)
(* Model of the Telegram "rekapan" bot: the message handler of             *)
(* src/index.js (commands /ps /allps /cari /<username> /clean /aktivasi    *)
(* /help) and of src/unnamed/part_001 (/exportcari /ps /weekly /monthly    *)
(* /topteknisi), running against two external tables: the record store    *)
(* (sheet REKAPAN QUALITY) and the user store (sheet USER).                *)
(*                                                                         *)
(* Every `await` on the table service is a point where other handlers may  *)
(* run, so one handler is a sequence of steps                              *)
(*     idle -> user -> read -> write -> done                               *)
(* and each step carries the synchronous code that follows the await.  A   *)
(* handler's reply is the message it hands to sendTelegram; the table      *)
(* service stores cells as the strings it is given.                        *)
(*                                                                         *)
(* Strings are sequences of one-character strings, so that toUpperCase,    *)
(* toLowerCase, replace('@','') and the `${sn}-${nik}` key are computed    *)
(* and not assumed.                                                        *)
(***************************************************************************)
EXTENDS Integers, Sequences, FiniteSets, TLC

VARIABLES sheet, users, handler, fn

vars == <<sheet, users, handler, fn>>

(***************************************************************************)
(* Bounds of the model.                                                    *)
(***************************************************************************)
NumHandlers == 2
MaxData == 4

Handlers == 1..NumHandlers

(***************************************************************************)
(* Strings.                                                                *)
(***************************************************************************)
LowerLetters ==
  <<"a","b","c","d","e","f","g","h","i","j","k","l","m",
    "n","o","p","q","r","s","t","u","v","w","x","y","z">>

UpperLetters ==
  <<"A","B","C","D","E","F","G","H","I","J","K","L","M",
    "N","O","P","Q","R","S","T","U","V","W","X","Y","Z">>

UpperChar(c) ==
  IF \E i \in DOMAIN LowerLetters : LowerLetters[i] = c
    THEN UpperLetters[CHOOSE i \in DOMAIN LowerLetters : LowerLetters[i] = c]
    ELSE c

LowerChar(c) ==
  IF \E i \in DOMAIN UpperLetters : UpperLetters[i] = c
    THEN LowerLetters[CHOOSE i \in DOMAIN UpperLetters : UpperLetters[i] = c]
    ELSE c

\* String.prototype.toUpperCase
toUpperCase(s) == [i \in 1..Len(s) |-> UpperChar(s[i])]

\* String.prototype.toLowerCase
toLowerCase(s) == [i \in 1..Len(s) |-> LowerChar(s[i])]

\* s.replace('@', ''): a string pattern replaces the first occurrence only
replaceAt(s) ==
  IF \E i \in 1..Len(s) : s[i] = "@"
    THEN LET k == CHOOSE i \in 1..Len(s) :
                    s[i] = "@" /\ \A j \in 1..(i-1) : s[j] # "@"
         IN  SubSeq(s, 1, k-1) \o SubSeq(s, k+1, Len(s))
    ELSE s

\* (cell || '').replace('@', '').toLowerCase()
normHandle(s) == toLowerCase(replaceAt(s))

ADMIN == <<"A","D","M","I","N">>
AKTIF == <<"A","K","T","I","F">>

(***************************************************************************)
(* The two tables.  A record-store row keeps the cells the handlers read:  *)
(* column 7 (SN ONT), column 8 (NIK ONT) and column 11 (TEKNISI).  A user  *)
(* row keeps column 1 (handle), column 2 (role) and column 3 (status).     *)
(* Row 1 of either table is its header.                                    *)
(***************************************************************************)
Row(sn, nik, tek) == [sn |-> sn, nik |-> nik, tek |-> tek]

HeaderRow == Row(<<"S">>, <<"N">>, <<"T">>)

UserRow(handle, role, status) == [handle |-> handle, role |-> role, status |-> status]

UserHeader == UserRow(<<"U">>, <<"R">>, <<"S">>)

\* getUserData's null
NoUser == UserRow(<<>>, <<>>, <<"null">>)

DataRows(data) == SubSeq(data, 2, Len(data))

(***************************************************************************)
(* getUserData (src/index.js 177-193): the first row after the header      *)
(* whose handle equals the username, both without their first '@' and in   *)
(* lower case, and whose status is AKTIF in upper case; null when there is *)
(* none.  The loop index i is 1-based here (the code's i+1).               *)
(***************************************************************************)
RECURSIVE getUserLoop(_, _, _)
getUserLoop(data, username, i) ==
  IF i > Len(data) THEN NoUser
  ELSE IF /\ normHandle(data[i].handle) = normHandle(username)
          /\ toUpperCase(data[i].status) = AKTIF
         THEN data[i]
         ELSE getUserLoop(data, username, i + 1)

\* a lookup that forgets the status column
getUserData_AnyStatus(data, username) ==
  IF \E i \in 2..Len(data) : normHandle(data[i].handle) = normHandle(username)
    THEN data[CHOOSE i \in 2..Len(data) : normHandle(data[i].handle) = normHandle(username)]
    ELSE NoUser

getUserData(data, username) == getUserLoop(data, username, 2)

\* an admin check that forgets the role
isAdmin_AnyActiveUser(user) == user # NoUser

\* isAdmin (src/index.js 196-199), applied to getUserData's result
isAdmin(user) == user # NoUser /\ toUpperCase(user.role) = ADMIN

(***************************************************************************)
(* The duplicate check of /aktivasi (src/index.js 610-617).                *)
(***************************************************************************)
RECURSIVE isDuplicateLoop(_, _, _, _)
isDuplicateLoop(data, snOnt, nikOnt, i) ==
  IF i > Len(data) THEN FALSE
  ELSE IF /\ toUpperCase(data[i].sn) = toUpperCase(snOnt)
          /\ toUpperCase(data[i].nik) = toUpperCase(nikOnt)
         THEN TRUE
         ELSE isDuplicateLoop(data, snOnt, nikOnt, i + 1)

\* a loop that starts one row too late
isDuplicate_SkipFirstRow(data, snOnt, nikOnt) == isDuplicateLoop(data, snOnt, nikOnt, 3)

\* a check that accepts a match on either field
isDuplicate_EitherField(data, snOnt, nikOnt) ==
  \E i \in 2..Len(data) :
    \/ toUpperCase(data[i].sn) = toUpperCase(snOnt)
    \/ toUpperCase(data[i].nik) = toUpperCase(nikOnt)

isDuplicate(data, snOnt, nikOnt) == isDuplicateLoop(data, snOnt, nikOnt, 2)

(***************************************************************************)
(* The dedup loop of /clean (src/index.js 418-433): seen is the set of     *)
(* keys `${snOnt}-${nikOnt}`, uniqueData starts as the header.             *)
(***************************************************************************)
cleanKey(row) == toUpperCase(row.sn) \o <<"-">> \o toUpperCase(row.nik)

RECURSIVE cleanLoop(_, _, _, _, _)
cleanLoop(data, i, seen, uniqueData, duplicateCount) ==
  IF i > Len(data)
    THEN [uniqueData |-> uniqueData, duplicateCount |-> duplicateCount]
    ELSE IF /\ cleanKey(data[i]) \notin seen
            /\ data[i].sn # <<>>
            /\ data[i].nik # <<>>
           THEN cleanLoop(data, i + 1, seen \cup {cleanKey(data[i])},
                          Append(uniqueData, data[i]), duplicateCount)
           ELSE cleanLoop(data, i + 1, seen, uniqueData, duplicateCount + 1)

cleanData(data) == cleanLoop(data, 2, {}, <<data[1]>>, 0)

(***************************************************************************)
(* The row filter of /exportcari (src/unnamed/part_001 392-404).           *)
(***************************************************************************)
userTeknisi(user, username) ==
  normHandle(IF user.handle # <<>> THEN user.handle ELSE username)

RECURSIVE exportLoop(_, _, _, _)
exportLoop(data, teknisi, i, userActivations) ==
  IF i > Len(data) THEN userActivations
  ELSE exportLoop(data, teknisi, i + 1,
                  IF normHandle(data[i].tek) = teknisi
                    THEN Append(userActivations, data[i])
                    ELSE userActivations)

\* a filter that compares the technician cell as it is stored
exportRows_RawCell(data, user, username) ==
  SelectSeq(DataRows(data), LAMBDA row : row.tek = userTeknisi(user, username))

exportRows(data, user, username) ==
  exportLoop(data, userTeknisi(user, username), 2, <<>>)

(***************************************************************************)
(* The table service.  values.append adds one row after the last row of    *)
(* the table; values.update with range A1:L<n> writes rows 1..n of the     *)
(* sheet and leaves every row below row n as it is.                        *)
(***************************************************************************)
appendSheetData(store, row) == Append(store, row)

updateSheetData(store, values) ==
  [i \in 1..(IF Len(values) > Len(store) THEN Len(values) ELSE Len(store)) |->
     IF i <= Len(values) THEN values[i] ELSE store[i]]

(***************************************************************************)
(* Messages.  A message is the bot that receives it, the chat type, the    *)
(* sender's username ('' when the sender has none), the command its text   *)
(* starts with, and for /aktivasi whether any text follows the command and *)
(* the SN ONT and NIK ONT that parseAktivasi extracts from that text.      *)
(***************************************************************************)
Draft(sn, nik) == [snOnt |-> sn, nikOnt |-> nik]

NoDraft == Draft(<<>>, <<>>)

Msg(bot, chat, username, cmd, hasText, draft) ==
  [bot |-> bot, chat |-> chat, username |-> username, cmd |-> cmd,
   hasText |-> hasText, draft |-> draft]

NoMsg == Msg("none", "none", <<>>, "none", FALSE, NoDraft)

IndexCmds ==
  {"ps", "allps", "cari", "userstat", "clean", "aktivasi", "help", "unknown", "text"}

Part1Cmds == {"exportcari", "ps", "weekly", "monthly", "topteknisi"}

\* the commands whose handler starts with `if (!(await isAdmin(username)))`
AdminOnly(m) ==
  \/ m.bot = "index" /\ m.cmd \in {"ps", "allps", "userstat", "clean"}
  \/ m.bot = "part_001" /\ m.cmd \in {"ps", "weekly", "monthly", "topteknisi"}

\* the commands whose handler starts with `const user = await getUserData(username)`
UserOnly(m) ==
  \/ m.bot = "index" /\ m.cmd \in {"cari", "aktivasi"}
  \/ m.bot = "part_001" /\ m.cmd = "exportcari"

InGroup(m) == m.chat \in {"group", "supergroup"}

(***************************************************************************)
(* One handler invocation: its position, its message, and the locals of    *)
(* the handler's closure.  calls counts the calls made to the table        *)
(* service, failed names the calls that failed, and raced lists the rows   *)
(* other handlers appended between this handler's read-all and its write.  *)
(***************************************************************************)
NoCalls == [user |-> 0, read |-> 0, write |-> 0]

Idle ==
  [pc |-> "idle", msg |-> NoMsg, user |-> NoUser, data |-> <<>>,
   pending |-> <<>>, duplicateCount |-> 0, missing |-> <<>>,
   reply |-> "none", export |-> <<>>,
   calls |-> NoCalls, failed |-> {}, raced |-> <<>>]

Finish(rec, reply) == [rec EXCEPT !.pc = "done", !.reply = reply]

\* a handler without the group filter
afterReceive_NoGroupFilter(m) ==
  LET rec == [Idle EXCEPT !.msg = m] IN
  IF AdminOnly(m) \/ UserOnly(m) \/ m.cmd = "help"
    THEN [rec EXCEPT !.pc = "user"]
  ELSE IF m.cmd = "unknown" THEN Finish(rec, "unknown")
  ELSE Finish(rec, "none")

\* bot.on('message') up to the first await (src/index.js 214-231)
afterReceive(m) ==
  LET rec == [Idle EXCEPT !.msg = m] IN
  IF InGroup(m) /\ m.cmd # "aktivasi" THEN Finish(rec, "none")
  ELSE IF AdminOnly(m) \/ UserOnly(m) \/ m.cmd = "help"
         THEN [rec EXCEPT !.pc = "user"]
  ELSE IF m.cmd = "unknown" THEN Finish(rec, "unknown")
  ELSE Finish(rec, "none")

\* a validation that forgets NIK ONT
missingFields_SnOnly(draft) == IF draft.snOnt = <<>> THEN <<"SN ONT">> ELSE <<>>

\* the required-field validation of /aktivasi (src/index.js 601-606)
missingFields(draft) ==
  (IF draft.snOnt = <<>> THEN <<"SN ONT">> ELSE <<>>)
    \o (IF draft.nikOnt = <<>> THEN <<"NIK ONT">> ELSE <<>>)

\* from the user-store read to the next await; user is getUserData's result
afterUser(rec, user) ==
  LET m == rec.msg
      r == [rec EXCEPT !.user = user]
  IN
  IF AdminOnly(m)
    THEN IF isAdmin(user) THEN [r EXCEPT !.pc = "read"] ELSE Finish(r, "denied")
  ELSE IF m.cmd = "help"
    THEN Finish(r, IF isAdmin(user) THEN "helpAdmin" ELSE "help")
  ELSE IF user = NoUser THEN Finish(r, "notRegistered")
  ELSE IF m.cmd # "aktivasi" THEN [r EXCEPT !.pc = "read"]
  ELSE IF ~m.hasText THEN Finish(r, "askData")
  ELSE IF missingFields(m.draft) # <<>>
    THEN Finish([r EXCEPT !.missing = missingFields(m.draft)], "missing")
  ELSE [r EXCEPT !.pc = "read"]

\* an attribution that ignores the user row
teknisiOf_BareHandle(user, username) == username

\* parseAktivasi's teknisi (src/index.js 461) and the row of 625-638
teknisiOf(user, username) == IF user.handle # <<>> THEN user.handle ELSE username

aktivasiRow(rec) ==
  Row(rec.msg.draft.snOnt, rec.msg.draft.nikOnt,
      teknisiOf(rec.user, rec.msg.username))

\* /clean after its read-all (src/index.js 414-440)
afterReadClean(r, data) ==
  IF Len(data) <= 1 THEN Finish(r, "alreadyClean")
  ELSE LET c == cleanData(data) IN
       IF c.duplicateCount = 0 THEN Finish(r, "alreadyClean")
       ELSE [r EXCEPT !.pc = "write", !.pending = c.uniqueData,
                      !.duplicateCount = c.duplicateCount]

\* a duplicate branch that replies but does not return
afterReadAktivasi_NoReturn(r, data) ==
  [r EXCEPT !.pc = "write", !.pending = <<aktivasiRow(r)>>,
            !.reply = IF isDuplicate(data, r.msg.draft.snOnt, r.msg.draft.nikOnt)
                        THEN "duplicate" ELSE "none"]

\* /aktivasi after its read-all (src/index.js 610-638)
afterReadAktivasi(r, data) ==
  IF isDuplicate(data, r.msg.draft.snOnt, r.msg.draft.nikOnt)
    THEN Finish(r, "duplicate")
    ELSE [r EXCEPT !.pc = "write", !.pending = <<aktivasiRow(r)>>]

\* /exportcari after its read-all (src/unnamed/part_001 392-414)
afterReadExport(r, data) ==
  LET rows == exportRows(data, r.user, r.msg.username) IN
  IF rows = <<>> THEN Finish(r, "noExportData")
  ELSE Finish([r EXCEPT !.export = rows], "csv")

\* from the record-store read to the next await; data is getSheetData's result
afterRead(rec, data) ==
  LET m == rec.msg
      r == [rec EXCEPT !.data = data]
  IN
  IF m.cmd = "clean" THEN afterReadClean(r, data)
  ELSE IF m.cmd = "aktivasi" THEN afterReadAktivasi(r, data)
  ELSE IF m.cmd = "exportcari" THEN afterReadExport(r, data)
  ELSE IF m.cmd = "cari" THEN Finish(r, "stats")
  ELSE Finish(r, "report")

\* a catch block that confirms all the same
afterThrow_Confirms(rec, call) ==
  Finish([rec EXCEPT !.failed = @ \cup {call}], "saved")

\* the catch block (src/index.js 681-684)
afterThrow(rec, call) ==
  Finish([rec EXCEPT !.failed = @ \cup {call}], "sysError")

(***************************************************************************)
(* Initial tables and the messages each specification draws from.          *)
(***************************************************************************)
uAdmin == UserRow(<<"@","a">>, <<"a","d","m","i","n">>, <<"A","k","t","i","f">>)
uTek == UserRow(<<"t">>, <<>>, AKTIF)
uOff == UserRow(<<"b">>, ADMIN, <<"O","F","F">>)

UserTables == { <<UserHeader, uAdmin, uTek, uOff>> }

\* senders: the admin, the technician, the inactive user, a stranger, no username
Senders == { <<"A">>, <<"t">>, <<"b">>, <<"x">>, <<>> }

rSN == Row(<<"s">>, <<"n">>, <<"t">>)
rSNup == Row(<<"S">>, <<"N">>, <<"@","T">>)
rNoSn == Row(<<>>, <<"n">>, <<"A">>)
rDash1 == Row(<<"s","-","n">>, <<"n">>, <<"t">>)
rDash2 == Row(<<"s">>, <<"n","-","n">>, <<"a">>)

InitSheets ==
  { <<HeaderRow>>,
    <<HeaderRow, rSN>>,
    <<HeaderRow, rSN, rSNup>>,
    <<HeaderRow, rNoSn, rSN>>,
    <<HeaderRow, rDash1, rDash2>> }

\* drafts that pass the required-field validation: two keys, one in two cases
FullDrafts == { Draft(sn, nik) : sn \in { <<"s">>, <<"S">> }, nik \in { <<"n">>, <<"m">> } }

\* drafts with SN ONT or NIK ONT (or both) empty
PartDrafts == { Draft(<<>>, <<"n">>), Draft(<<"s">>, <<>>), NoDraft }

AktivasiMessages(chats, senders, drafts) ==
  { Msg("index", c, u, "aktivasi", TRUE, d) : c \in chats, u \in senders, d \in drafts }

\* "/aktivasi" with nothing after it
BareAktivasi(chats, senders) ==
  { Msg("index", c, u, "aktivasi", FALSE, NoDraft) : c \in chats, u \in senders }

CommandMessages(bot, cmds, chats, senders) ==
  { Msg(bot, c, u, k, FALSE, NoDraft) : c \in chats, u \in senders, k \in cmds }

\* the commands that write to the record store, sent in a private chat:
\* /aktivasi by the technician, /clean by the admin or the technician
WriterMessages ==
  AktivasiMessages({"private"}, { <<"t">> }, FullDrafts)
    \cup CommandMessages("index", {"clean"}, {"private"}, { <<"A">>, <<"t">> })

Chats == {"private", "group", "supergroup"}

\* every command of both bots, in every chat type, from every sender
AllMessages ==
  AktivasiMessages(Chats, Senders, FullDrafts \cup PartDrafts)
    \cup BareAktivasi(Chats, Senders)
    \cup CommandMessages("index", IndexCmds \ {"aktivasi"}, Chats, Senders)
    \cup CommandMessages("part_001", Part1Cmds, Chats, Senders)

\* no pure function is under evaluation
NoFn == [name |-> "none"]

(***************************************************************************)
(* Actions.                                                                *)
(***************************************************************************)
InFlight(h) == handler[h].pc \in {"user", "read", "write"}

\* rows the store may still receive, so that it stays within MaxData data rows
Room ==
  MaxData - (Len(sheet) - 1)
    - Cardinality({ g \in Handlers : InFlight(g) /\ handler[g].msg.cmd = "aktivasi" })

Receive(h, m) ==
  /\ handler[h].pc = "idle"
  /\ m.cmd = "aktivasi" => Room > 0
  /\ handler' = [handler EXCEPT ![h] = afterReceive(m)]
  /\ UNCHANGED <<sheet, users, fn>>

Called(rec, call) == [rec EXCEPT !.calls[call] = @ + 1]

\* await getSheetData(USER_SHEET) inside getUserData returns the user table
UserReadOk(h) ==
  /\ handler[h].pc = "user"
  /\ handler' = [handler EXCEPT ![h] =
       afterUser(Called(@, "user"), getUserData(users, @.msg.username))]
  /\ UNCHANGED <<sheet, users, fn>>

\* it throws: getUserData catches the error and returns null
UserReadFail(h) ==
  /\ handler[h].pc = "user"
  /\ handler' = [handler EXCEPT ![h] =
       afterUser([Called(@, "user") EXCEPT !.failed = @ \cup {"user"}], NoUser)]
  /\ UNCHANGED <<sheet, users, fn>>

\* await getSheetData(REKAPAN_SHEET) returns the record store
SheetReadOk(h) ==
  /\ handler[h].pc = "read"
  /\ handler' = [handler EXCEPT ![h] = afterRead(Called(@, "read"), sheet)]
  /\ UNCHANGED <<sheet, users, fn>>

SheetReadFail(h) ==
  /\ handler[h].pc = "read"
  /\ handler' = [handler EXCEPT ![h] = afterThrow(Called(@, "read"), "read")]
  /\ UNCHANGED <<sheet, users, fn>>

InCleanWindow(g) == handler[g].pc = "write" /\ handler[g].msg.cmd = "clean"

\* await appendSheetData(REKAPAN_SHEET, row) succeeds (src/index.js 640-654)
AppendOk(h) ==
  /\ handler[h].pc = "write"
  /\ handler[h].msg.cmd = "aktivasi"
  /\ sheet' = appendSheetData(sheet, handler[h].pending[1])
  /\ handler' = [g \in Handlers |->
       IF g = h THEN Finish(Called(handler[h], "write"), "saved")
       ELSE IF InCleanWindow(g)
         THEN [handler[g] EXCEPT !.raced = Append(@, handler[h].pending[1])]
         ELSE handler[g]]
  /\ UNCHANGED <<users, fn>>

\* await updateSheetData(REKAPAN_SHEET, `A1:L${uniqueData.length}`, uniqueData)
\* succeeds (src/index.js 440-441)
UpdateOk(h) ==
  /\ handler[h].pc = "write"
  /\ handler[h].msg.cmd = "clean"
  /\ sheet' = updateSheetData(sheet, handler[h].pending)
  /\ handler' = [handler EXCEPT ![h] = Finish(Called(@, "write"), "cleaned")]
  /\ UNCHANGED <<users, fn>>

WriteFail(h) ==
  /\ handler[h].pc = "write"
  /\ handler' = [handler EXCEPT ![h] = afterThrow(Called(@, "write"), "write")]
  /\ UNCHANGED <<sheet, users, fn>>

Step(h) ==
  \/ UserReadOk(h) \/ UserReadFail(h)
  \/ SheetReadOk(h) \/ SheetReadFail(h)
  \/ AppendOk(h) \/ UpdateOk(h) \/ WriteFail(h)

(***************************************************************************)
(* Spec: NumHandlers handlers of src/index.js run concurrently, each on    *)
(* one /aktivasi or /clean message.                                        *)
(***************************************************************************)
Init ==
  /\ sheet \in InitSheets
  /\ users \in UserTables
  /\ handler = [h \in Handlers |-> Idle]
  /\ fn = NoFn

Next ==
  \E h \in Handlers :
    \/ \E m \in WriterMessages : Receive(h, m)
    \/ Step(h)

Spec == Init /\ [][Next]_vars

(***************************************************************************)
(* SpecCmd: one message, any command of either bot, from any sender in any *)
(* chat type, handled alone.                                               *)
(***************************************************************************)
NextCmd ==
  \/ \E m \in AllMessages : Receive(1, m)
  \/ Step(1)

SpecCmd == Init /\ [][NextCmd]_vars

(***************************************************************************)
(* SpecAkt: NumHandlers /aktivasi handlers run concurrently, starting from *)
(* a store whose data rows have pairwise distinct natural keys.            *)
(***************************************************************************)
SameKey(r1, r2) ==
  /\ toUpperCase(r1.sn) = toUpperCase(r2.sn)
  /\ toUpperCase(r1.nik) = toUpperCase(r2.nik)

KeysUnique(store) ==
  \A i, j \in 2..Len(store) : i # j => ~SameKey(store[i], store[j])

InitAkt ==
  /\ sheet \in { s \in InitSheets : KeysUnique(s) }
  /\ users \in UserTables
  /\ handler = [h \in Handlers |-> Idle]
  /\ fn = NoFn

NextAkt ==
  \E h \in Handlers :
    \/ \E m \in AktivasiMessages({"private"}, { <<"A">>, <<"t">> }, FullDrafts) :
         Receive(h, m)
    \/ UserReadOk(h) \/ UserReadFail(h)
    \/ SheetReadOk(h) \/ SheetReadFail(h)
    \/ AppendOk(h) \/ WriteFail(h)

SpecAkt == InitAkt /\ [][NextAkt]_vars

(***************************************************************************)
(* SpecPure: the duplicate check and the dedup computation on every record *)
(* store of up to MaxData - 1 data rows over PureRows: one /clean by the   *)
(* admin or one /aktivasi by the technician, handled alone.                *)
(***************************************************************************)
PureRows ==
  { rSN, rSNup, rNoSn, rDash1, rDash2,
    Row(<<"s">>, <<"m">>, <<"t">>), Row(<<"s">>, <<>>, <<"t">>) }

AllSheets ==
  UNION { { <<HeaderRow>> \o rows : rows \in [1..n -> PureRows] } : n \in 0..(MaxData - 1) }

PureMessages ==
  AktivasiMessages({"private"}, { <<"t">> }, FullDrafts)
    \cup CommandMessages("index", {"clean"}, {"private"}, { <<"A">> })

InitPure ==
  /\ sheet \in AllSheets
  /\ users \in UserTables
  /\ handler = [h \in Handlers |-> Idle]
  /\ fn = NoFn

NextPure ==
  \/ \E m \in PureMessages : Receive(1, m)
  \/ Step(1)

SpecPure == InitPure /\ [][NextPure]_vars

(***************************************************************************)
(* Dates.  A Date is an instant, counted here in whole hours since         *)
(* 1970-01-01T00:00Z; a calendar day is a day number since 1970-01-01.     *)
(* Every instant the filter compares is a whole hour except the window's   *)
(* end 23:59:59.999, which lies in hour 23 of its day: `<=` against it is  *)
(* `<=` against that hour.  The host's timezone is an input of the         *)
(* process: HostOffset hours east of UTC.                                  *)
(***************************************************************************)
Digit == <<"0","1","2","3","4","5","6","7","8","9">>

IsDigit(c) == \E i \in DOMAIN Digit : Digit[i] = c

DigitVal(c) == (CHOOSE i \in DOMAIN Digit : Digit[i] = c) - 1

AllDigits(s) == \A i \in 1..Len(s) : IsDigit(s[i])

\* parseInt of a string of digits
RECURSIVE parseInt(_)
parseInt(s) ==
  IF s = <<>> THEN 0
  ELSE 10 * parseInt(SubSeq(s, 1, Len(s) - 1)) + DigitVal(s[Len(s)])

\* the decimal numeral of a natural number
RECURSIVE numeral(_)
numeral(n) ==
  IF n < 10 THEN <<Digit[n + 1]>>
  ELSE numeral(n \div 10) \o <<Digit[(n % 10) + 1]>>

\* s.padStart(2, '0')
padStart2(s) ==
  IF Len(s) >= 2 THEN s
  ELSE IF Len(s) = 1 THEN <<"0">> \o s
  ELSE <<"0","0">>

\* s.split(' ')
RECURSIVE split(_, _)
split(s, sep) ==
  IF \E i \in 1..Len(s) : s[i] = sep
    THEN LET k == CHOOSE i \in 1..Len(s) :
                    s[i] = sep /\ \A j \in 1..(i-1) : s[j] # sep
         IN  <<SubSeq(s, 1, k-1)>> \o split(SubSeq(s, k+1, Len(s)), sep)
    ELSE <<s>>

\* the proleptic Gregorian calendar of Date: day number of year-month-day
DaysFromCivil(year, month, day) ==
  LET y == IF month <= 2 THEN year - 1 ELSE year
      era == y \div 400
      yoe == y - era * 400
      mp == IF month > 2 THEN month - 3 ELSE month + 9
      doy == (153 * mp + 2) \div 5 + day - 1
      doe == yoe * 365 + yoe \div 4 - yoe \div 100 + doy
  IN  era * 146097 + doe - 719468

\* and back: the year, month (1..12) and day of the month of a day number
CivilFromDays(n) ==
  LET z == n + 719468
      era == z \div 146097
      doe == z - era * 146097
      yoe == (doe - doe \div 1460 + doe \div 36524 - doe \div 146096) \div 365
      doy == doe - (365 * yoe + yoe \div 4 - yoe \div 100)
      mp == (5 * doy + 2) \div 153
      d == doy - (153 * mp + 2) \div 5 + 1
      m == IF mp < 10 THEN mp + 3 ELSE mp - 9
      y == yoe + era * 400
  IN  [year |-> IF m <= 2 THEN y + 1 ELSE y, month |-> m, day |-> d]

\* day of the week of a day number, 0 = Sunday (1970-01-01 was a Thursday)
WeekDay(n) == (n + 4) % 7

\* the calendar day an instant falls on, at off hours east of UTC
DayAt(t, off) == (t + off) \div 24

\* the instant of local midnight of a day
MidnightOf(n, off) == n * 24 - off

\* new Date(year, monthIndex, day): local midnight; monthIndex and day may
\* overflow, years 0..99 mean 1900..1999
newDateLocal(year, monthIndex, day, off) ==
  LET y == IF year >= 0 /\ year <= 99 THEN 1900 + year ELSE year
      n == DaysFromCivil(y + monthIndex \div 12, (monthIndex % 12) + 1, 1) + day - 1
  IN  MidnightOf(n, off)

\* d.setHours(0, 0, 0, 0)
startOfDay(t, off) == MidnightOf(DayAt(t, off), off)

\* d.setHours(23, 59, 59, 999)
endOfDay(t, off) == MidnightOf(DayAt(t, off), off) + 23

\* d.setDate(d.getDate() + k)
addDays(t, k) == t + 24 * k

\* the zone of timeZone: 'Asia/Jakarta', hours east of UTC
JakartaOffset == 7

\* id-ID names of toLocaleDateString with weekday: 'long' and month: 'long'
WeekdayNames ==
  << <<"M","i","n","g","g","u">>, <<"S","e","n","i","n">>, <<"S","e","l","a","s","a">>, <<"R","a","b","u">>, <<"K","a","m","i","s">>, <<"J","u","m","a","t">>, <<"S","a","b","t","u">> >>

MonthNames ==
  << <<"J","a","n","u","a","r","i">>, <<"F","e","b","r","u","a","r","i">>, <<"M","a","r","e","t">>, <<"A","p","r","i","l">>, <<"M","e","i">>, <<"J","u","n","i">>,
     <<"J","u","l","i">>, <<"A","g","u","s","t","u","s">>, <<"S","e","p","t","e","m","b","e","r">>, <<"O","k","t","o","b","e","r">>, <<"N","o","v","e","m","b","e","r">>, <<"D","e","s","e","m","b","e","r">> >>

\* the label of a calendar day, "Senin, 3 Maret 2025"
dateLabel(n) ==
  LET c == CivilFromDays(n) IN
  WeekdayNames[WeekDay(n) + 1] \o <<",", " ">> \o numeral(c.day) \o <<" ">>
    \o MonthNames[c.month] \o <<" ">> \o numeral(c.year)

\* getTodayDateString (src/unnamed/part_001 228-237): the label of the day
\* the instant now falls on in Asia/Jakarta
getTodayDateString(now) == dateLabel(DayAt(now, JakartaOffset))

\* the keys of parseIndonesianDate's table; the value of key k is the
\* two-digit numeral of k
months ==
  << <<"j","a","n","u","a","r","i">>, <<"f","e","b","r","u","a","r","i">>, <<"m","a","r","e","t">>, <<"a","p","r","i","l">>, <<"m","e","i">>, <<"j","u","n","i">>,
     <<"j","u","l","i">>, <<"a","g","u","s","t","u","s">>, <<"s","e","p","t","e","m","b","e","r">>, <<"o","k","t","o","b","e","r">>, <<"n","o","v","e","m","b","e","r">>, <<"d","e","s","e","m","b","e","r">> >>

NullDate == [kind |-> "null", t |-> 0]
InvalidDate == [kind |-> "invalid", t |-> 0]
DateAt(t) == [kind |-> "date", t |-> t]

DaysInMonth(year, month) ==
  DaysFromCivil(year + month \div 12, (month % 12) + 1, 1) - DaysFromCivil(year, month, 1)

\* new Date('YYYY-MM-DD'): a date-only ISO string is midnight UTC of that
\* day; a string that names no day is an Invalid Date
newDateIso(s) ==
  IF /\ Len(s) = 10 /\ s[5] = "-" /\ s[8] = "-"
     /\ AllDigits(SubSeq(s, 1, 4)) /\ AllDigits(SubSeq(s, 6, 7)) /\ AllDigits(SubSeq(s, 9, 10))
    THEN LET y == parseInt(SubSeq(s, 1, 4))
             m == parseInt(SubSeq(s, 6, 7))
             d == parseInt(SubSeq(s, 9, 10))
         IN  IF m >= 1 /\ m <= 12 /\ d >= 1 /\ d <= DaysInMonth(y, m)
               THEN DateAt(DaysFromCivil(y, m, d) * 24)
               ELSE InvalidDate
    ELSE InvalidDate

\* parseIndonesianDate (src/unnamed/part_001 240-257)
parseIndonesianDate(dateStr) ==
  LET parts == split(toLowerCase(dateStr), " ") IN
  IF Len(parts) >= 4
    THEN LET day == padStart2(parts[2])
             year == parts[4]
         IN  IF \E k \in DOMAIN months : months[k] = parts[3]
               THEN LET month == padStart2(numeral(CHOOSE k \in DOMAIN months : months[k] = parts[3]))
                    IN  newDateIso(year \o <<"-">> \o month \o <<"-">> \o day)
               ELSE NullDate
    ELSE NullDate

\* customDate.match(/(\d{1,2})[\/\-](\d{1,2})[\/\-](\d{4})/): the leftmost
\* match, each \d{1,2} taking two digits when the rest still matches
DateMatches(s) ==
  LET IsDateSep(c) == c = "/" \/ c = "-"
      DateMatchAt(i, a, b) ==
        /\ i + a + b + 5 <= Len(s)
        /\ AllDigits(SubSeq(s, i, i + a - 1))
        /\ IsDateSep(s[i + a])
        /\ AllDigits(SubSeq(s, i + a + 1, i + a + b))
        /\ IsDateSep(s[i + a + b + 1])
        /\ AllDigits(SubSeq(s, i + a + b + 2, i + a + b + 5))
  IN  { m \in [i : 1..Len(s), a : {1, 2}, b : {1, 2}] : DateMatchAt(m.i, m.a, m.b) }

matchDatePattern(s) ==
  LET ms == DateMatches(s)
      m == CHOOSE x \in ms : \A y \in ms :
             \/ x.i < y.i
             \/ x.i = y.i /\ x.a > y.a
             \/ x.i = y.i /\ x.a = y.a /\ x.b >= y.b
  IN  << SubSeq(s, m.i, m.i + m.a - 1),
         SubSeq(s, m.i + m.a + 1, m.i + m.a + m.b),
         SubSeq(s, m.i + m.a + m.b + 2, m.i + m.a + m.b + 5) >>

\* startDate and endDate stay undefined
NoWindow == [defined |-> FALSE, startDate |-> 0, endDate |-> 0]

Window(s, e) == [defined |-> TRUE, startDate |-> s, endDate |-> e]

\* the window of a period around the local midnight targetDate
\* (src/unnamed/part_001 287-305 and 310-328)
periodWindow(period, targetDate, off) ==
  IF period = "daily" THEN Window(targetDate, endOfDay(targetDate, off))
  ELSE IF period = "weekly" THEN
    LET dayOfWeek == WeekDay(DayAt(targetDate, off))
        mondayOffset == IF dayOfWeek = 0 THEN -6 ELSE 1 - dayOfWeek
        startDate == startOfDay(addDays(targetDate, mondayOffset), off)
    IN  Window(startDate, endOfDay(addDays(startDate, 6), off))
  ELSE IF period = "monthly" THEN
    LET c == CivilFromDays(DayAt(targetDate, off))
    IN  Window(newDateLocal(c.year, c.month - 1, 1, off),
               endOfDay(newDateLocal(c.year, c.month, 0, off), off))
  ELSE NoWindow

\* a row of the record store as the reports read it: column 0 (TANGGAL) and
\* column 11 (TEKNISI)
DatedRow(date, tek) == [date |-> date, tek |-> tek]

DatedHeader == DatedRow(<<"T","A","N","G","G","A","L">>, <<"T","E","K","N","I","S","I">>)

\* the filter loop (src/unnamed/part_001 334-343)
RECURSIVE filterLoop(_, _, _)
filterLoop(data, w, i) ==
  IF i > Len(data) THEN <<>>
  ELSE LET rowDate == parseIndonesianDate(data[i].date)
           keep == /\ data[i].date # <<>>
                   /\ rowDate.kind = "date"
                   /\ w.defined
                   /\ rowDate.t >= w.startDate
                   /\ rowDate.t <= w.endDate
       IN  (IF keep THEN <<data[i]>> ELSE <<>>) \o filterLoop(data, w, i + 1)

\* a filter that takes today as the anchor when the argument holds no date
filterDataByPeriod_FallsBack(data, period, customDate, now, off) ==
  LET targetDate ==
        IF customDate # <<>> /\ DateMatches(customDate) # {}
          THEN newDateLocal(parseInt(matchDatePattern(customDate)[3]),
                            parseInt(matchDatePattern(customDate)[2]) - 1,
                            parseInt(matchDatePattern(customDate)[1]), off)
          ELSE startOfDay(now, off)
  IN  filterLoop(data, periodWindow(period, targetDate, off), 2)

\* filterDataByPeriod (src/unnamed/part_001 271-346) run at the instant now
\* on a host off hours east of UTC; customDate is '' when none is given
filterDataByPeriod(data, period, customDate, now, off) ==
  LET today == startOfDay(now, off) IN
  IF customDate # <<>>
    THEN IF DateMatches(customDate) # {}
           THEN LET match == matchDatePattern(customDate)
                    day == parseInt(match[1])
                    month == parseInt(match[2]) - 1
                    year == parseInt(match[3])
                    targetDate == newDateLocal(year, month, day, off)
                IN  filterLoop(data, periodWindow(period, targetDate, off), 2)
           ELSE filterLoop(data, NoWindow, 2)
    ELSE IF period \in {"daily", "weekly", "monthly"}
           THEN filterLoop(data, periodWindow(period, today, off), 2)
           ELSE DataRows(data)

(***************************************************************************)
(* SpecPeriod: filterDataByPeriod applied once, for a report command of    *)
(* part_001 (/ps [date], /weekly [date], /monthly [date]), to a record     *)
(* store holding one row per day of DaysCovered consecutive days and rows  *)
(* whose label is no date, at some instant on some host, with or without a *)
(* date argument.                                                          *)
(***************************************************************************)
DaysCovered == 46

FirstCovered == DaysFromCivil(2025, 2, 22)

\* the rows of the covered days in either order, with rows whose label is no
\* date: empty, three words only, an English month
PeriodSheets ==
  LET BadLabels == << <<>>, <<"3"," ","M","a","r","e","t"," ","2","0","2","5">>, <<"M","o","n","d","a","y",","," ","3"," ","M","a","r","c","h"," ","2","0","2","5">> >>
      DayRows == [k \in 1..DaysCovered |-> DatedRow(dateLabel(FirstCovered + k - 1), <<"t">>)]
      BadRows == [k \in 1..Len(BadLabels) |-> DatedRow(BadLabels[k], <<"t">>)]
      Reverse(s) == [k \in 1..Len(s) |-> s[Len(s) + 1 - k]]
  IN  { <<DatedHeader>> \o BadRows \o DayRows,
        <<DatedHeader>> \o Reverse(DayRows) \o BadRows }

\* the date argument of the command: none, or a day in either written form
CustomDates ==
  { <<>>, <<"1","/","3","/","2","0","2","5">>, <<"0","2","-","0","3","-","2","0","2","5">>, <<"5","/","3","/","2","0","2","5">>, <<"3","1","/","0","3","/","2","0","2","5">>, <<"2","8","-","2","-","2","0","2","5">> }

InitPeriod ==
  /\ sheet = <<HeaderRow>>
  /\ users \in UserTables
  /\ handler = [h \in Handlers |-> Idle]
  /\ fn \in [name : {"filterDataByPeriod"}, data : PeriodSheets,
             period : {"daily", "weekly", "monthly"},
             customDate : CustomDates,
             \* instants of 2 March 2025 (a Sunday) and of 31 March 2025, in UTC
             now : { DaysFromCivil(2025, 3, 2) * 24 + 3,
                     DaysFromCivil(2025, 3, 2) * 24 + 20,
                     DaysFromCivil(2025, 3, 31) * 24 + 20 },
             \* hours east of UTC of the host's zone
             off : {-5, 0, 7},
             done : {FALSE}, result : {<<>>}]

ApplyFilter ==
  /\ fn.name = "filterDataByPeriod"
  /\ ~fn.done
  /\ fn' = [fn EXCEPT !.done = TRUE,
       !.result = filterDataByPeriod(fn.data, fn.period, fn.customDate, fn.now, fn.off)]
  /\ UNCHANGED <<sheet, users, handler>>

SpecPeriod == InitPeriod /\ [][ApplyFilter]_vars


(***************************************************************************)
(* The group counts of the reports (src/index.js 292-318,                  *)
(* src/unnamed/part_001 595-603).  A map is a plain object: Object.entries *)
(* lists the keys that are array indices first, in ascending numeric       *)
(* order, and then the other keys in the order of their creation.          *)
(* Array.prototype.sort is stable.                                         *)
(***************************************************************************)
\* a canonical numeric string below 2^32 - 1: '0', '7', '10', not '07'
IsArrayIndex(key) ==
  /\ key # <<>>
  /\ AllDigits(key)
  /\ (Len(key) > 1 => key[1] # "0")
  /\ Len(key) <= 9

\* (cell || '-').toUpperCase()
groupKey(cell) == toUpperCase(IF cell = <<>> THEN <<"-">> ELSE cell)

\* the map after the counting loop over the cells of one column, as
\* Object.entries lists it; skipDash is /topteknisi's `teknisi !== '-'`
RECURSIVE countLoop(_, _, _, _)
countLoop(cells, skipDash, i, map) ==
  IF i > Len(cells) THEN map
  ELSE LET key == groupKey(cells[i]) IN
       IF skipDash /\ key = <<"-">> THEN countLoop(cells, skipDash, i + 1, map)
       ELSE IF \E k \in 1..Len(map) : map[k].key = key
         THEN countLoop(cells, skipDash, i + 1,
                [k \in 1..Len(map) |->
                   IF map[k].key = key THEN [map[k] EXCEPT !.count = @ + 1] ELSE map[k]])
       ELSE LET entry == [key |-> key, count |-> 1]
                Before(e) == IsArrayIndex(key) =>
                               (IsArrayIndex(e.key) /\ parseInt(e.key) < parseInt(key))
                After(e) == ~Before(e)
            IN  countLoop(cells, skipDash, i + 1,
                  SelectSeq(map, Before) \o <<entry>> \o SelectSeq(map, After))

\* entries.sort((a, b) => b[1] - a[1])
RECURSIVE sortByCount(_)
sortByCount(entries) ==
  IF entries = <<>> THEN <<>>
  ELSE LET e == entries[Len(entries)]
           sorted == sortByCount(SubSeq(entries, 1, Len(entries) - 1))
           NotBelow(x) == x.count >= e.count
           Below(x) == x.count < e.count
       IN  SelectSeq(sorted, NotBelow) \o <<e>> \o SelectSeq(sorted, Below)

\* Object.entries(map).sort(...) of /allps (skipDash FALSE) and /topteknisi
sortedGroups(cells, skipDash) == sortByCount(countLoop(cells, skipDash, 1, <<>>))

(***************************************************************************)
(* SpecGroup: the group counts of one column of up to MaxCells data rows.  *)
(***************************************************************************)
MaxCells == 4

InitGroup ==
  /\ sheet = <<HeaderRow>>
  /\ users \in UserTables
  /\ handler = [h \in Handlers |-> Idle]
  /\ fn \in [name : {"sortedGroups"},
             \* cell values: missing, the dash, letters in either case, numerals
             cells : UNION { [1..n -> { <<>>, <<"-">>, <<"a">>, <<"A">>, <<"b">>, <<"7">>, <<"1","0">> }] : n \in 0..MaxCells },
             skipDash : BOOLEAN, done : {FALSE}, result : {<<>>}]

ApplyGroup ==
  /\ fn.name = "sortedGroups"
  /\ ~fn.done
  /\ fn' = [fn EXCEPT !.done = TRUE, !.result = sortedGroups(fn.cells, fn.skipDash)]
  /\ UNCHANGED <<sheet, users, handler>>

SpecGroup == InitGroup /\ [][ApplyGroup]_vars


(***************************************************************************)
(* generateCSV (src/unnamed/part_001 349-365).                             *)
(***************************************************************************)
\* String.prototype.includes
includes(s, word) ==
  \E i \in 1..(Len(s) - Len(word) + 1) : SubSeq(s, i, i + Len(word) - 1) = word

\* the value a cell is written as: in double quotes, with every double
\* quote doubled, when it holds a comma, a double quote or a line feed
csvCell(cellStr) ==
  LET RECURSIVE doubled(_)
      doubled(s) ==
        IF s = <<>> THEN <<>>
        ELSE (IF s[1] = "\"" THEN <<"\"", "\"">> ELSE <<s[1]>>) \o doubled(Tail(s))
  IN  IF includes(cellStr, <<",">>) \/ includes(cellStr, <<"\"">>) \/ includes(cellStr, <<"\n">>)
        THEN <<"\"">> \o doubled(cellStr) \o <<"\"">>
        ELSE cellStr

\* Array.prototype.join(',')
RECURSIVE joinComma(_)
joinComma(strs) ==
  IF strs = <<>> THEN <<>>
  ELSE IF Len(strs) = 1 THEN strs[1]
  ELSE strs[1] \o <<",">> \o joinComma(Tail(strs))

generateCSV(data, headers) ==
  LET RECURSIVE lines(_)
      lines(rows) ==
        IF rows = <<>> THEN <<>>
        ELSE joinComma([k \in 1..Len(rows[1]) |-> csvCell(rows[1][k])]) \o <<"\n">>
               \o lines(Tail(rows))
  IN  joinComma(headers) \o <<"\n">> \o lines(data)

(***************************************************************************)
(* SpecCsv: generateCSV applied to one record of two cells of up to        *)
(* MaxCellLen characters, or to two records of cells of one character at   *)
(* most.                                                                   *)
(***************************************************************************)
MaxCellLen == 2

CsvHeaders == << <<"A">>, <<"B">> >>

CsvData ==
  LET CsvCells(n) == UNION { [1..k -> {"x", ",", "\"", "\n", "\r"}] : k \in 0..n }
  IN  { <<r>> : r \in [1..2 -> CsvCells(MaxCellLen)] }
        \cup { <<r1, r2>> : r1 \in [1..2 -> CsvCells(1)], r2 \in [1..2 -> CsvCells(1)] }

InitCsv ==
  /\ sheet = <<HeaderRow>>
  /\ users \in UserTables
  /\ handler = [h \in Handlers |-> Idle]
  /\ fn \in [name : {"generateCSV"}, data : CsvData, done : {FALSE}, csv : {<<>>}]

ApplyCsv ==
  /\ fn.name = "generateCSV"
  /\ ~fn.done
  /\ fn' = [fn EXCEPT !.done = TRUE, !.csv = generateCSV(fn.data, CsvHeaders)]
  /\ UNCHANGED <<sheet, users, handler>>

SpecCsv == InitCsv /\ [][ApplyCsv]_vars


(***************************************************************************)
(* parseAktivasi (src/index.js 457-596): the dialect tag and the fields    *)
(* owner, snOnt, nikOnt, stbId and nikStb, which every branch takes from   *)
(* rule lists of the same two shapes,                                      *)
(*     /W1\s*W2[:\s]+(CLASS+)/i     and     /(W1[A-Z0-9]+)/i,              *)
(* where CLASS is [A-Z0-9] or \d.  White space is the blank and the line   *)
(* feed.                                                                   *)
(***************************************************************************)
LabelRule(w1, w2, digits) == [w1 |-> w1, w2 |-> w2, sep |-> TRUE, digits |-> digits]

BrandRule(w1) == [w1 |-> w1, w2 |-> <<>>, sep |-> FALSE, digits |-> FALSE]

\* text.match(pattern)[1] for a pattern without the g flag: the group of
\* the leftmost match, '' when there is no match
execRule(text, rule) ==
  LET n == Len(text)
      IsSpace(c) == c = " " \/ c = "\n"
      IsSep(c) == c = ":" \/ IsSpace(c)
      InClass(c) == IsDigit(c) \/ (~rule.digits /\ UpperChar(c) # LowerChar(c))
      WordAt(i, w) == i + Len(w) - 1 <= n /\ toUpperCase(SubSeq(text, i, i + Len(w) - 1)) = w
      \* the end of the longest run of characters with P that starts at j
      SpaceEnd(j) == CHOOSE k \in j..(n + 1) :
                       /\ \A x \in j..(k - 1) : IsSpace(text[x])
                       /\ k <= n => ~IsSpace(text[k])
      SepEnd(j) == CHOOSE k \in j..(n + 1) :
                     /\ \A x \in j..(k - 1) : IsSep(text[x])
                     /\ k <= n => ~IsSep(text[k])
      ClassEnd(j) == CHOOSE k \in j..(n + 1) :
                       /\ \A x \in j..(k - 1) : InClass(text[x])
                       /\ k <= n => ~InClass(text[k])
      W2At(i) == IF rule.w2 = <<>> THEN i + Len(rule.w1) ELSE SpaceEnd(i + Len(rule.w1))
      GroupAt(i) == IF rule.sep THEN SepEnd(W2At(i) + Len(rule.w2))
                    ELSE W2At(i) + Len(rule.w2)
      MatchAt(i) ==
        /\ WordAt(i, rule.w1)
        /\ WordAt(W2At(i), rule.w2)
        /\ rule.sep => GroupAt(i) > W2At(i) + Len(rule.w2)
        /\ ClassEnd(GroupAt(i)) > GroupAt(i)
  IN  IF \E i \in 1..n : MatchAt(i)
        THEN LET i == CHOOSE x \in 1..n : MatchAt(x) /\ \A y \in 1..(x - 1) : ~MatchAt(y)
             IN  SubSeq(text, IF rule.sep THEN GroupAt(i) ELSE i, ClassEnd(GroupAt(i)) - 1)
        ELSE <<>>

\* String.prototype.trim
RECURSIVE trim(_)
trim(s) ==
  IF s = <<>> THEN s
  ELSE IF s[1] = " " \/ s[1] = "\n" THEN trim(Tail(s))
  ELSE IF s[Len(s)] = " " \/ s[Len(s)] = "\n" THEN trim(SubSeq(s, 1, Len(s) - 1))
  ELSE s

\* a loop that lets a later pattern override an earlier one
RECURSIVE findValue_LastRule(_, _)
findValue_LastRule(text, patterns) ==
  IF patterns = <<>> THEN <<>>
  ELSE LET group == execRule(text, patterns[Len(patterns)]) IN
       IF group # <<>> THEN trim(group)
       ELSE findValue_LastRule(text, SubSeq(patterns, 1, Len(patterns) - 1))

\* findValue (src/index.js 464-476) over patterns without the g flag
RECURSIVE findValue(_, _)
findValue(text, patterns) ==
  IF patterns = <<>> THEN <<>>
  ELSE LET group == execRule(text, patterns[1]) IN
       IF group # <<>> THEN trim(group) ELSE findValue(text, Tail(patterns))

\* a classification that looks for TSEL first
detectOwner_TselFirst(text) ==
  LET upperText == toUpperCase(text) IN
  IF includes(upperText, <<"T","S","E","L">>) THEN <<"T","S","E","L">>
  ELSE IF includes(upperText, <<"I","N","D","I","B","I","Z">>) \/ includes(upperText, <<"H","S","I">>) THEN <<"B","G","E","S">>
  ELSE IF includes(upperText, <<"W","M","S">>) \/ includes(upperText, <<"M","W","S">>) THEN <<"W","M","S">>
  ELSE <<>>

\* detectOwner (src/index.js 479-491)
detectOwner(text) ==
  LET upperText == toUpperCase(text) IN
  IF includes(upperText, <<"I","N","D","I","B","I","Z">>) \/ includes(upperText, <<"H","S","I">>) THEN <<"B","G","E","S">>
  ELSE IF includes(upperText, <<"W","M","S">>) \/ includes(upperText, <<"M","W","S">>) THEN <<"W","M","S">>
  ELSE IF includes(upperText, <<"T","S","E","L">>) THEN <<"T","S","E","L">>
  ELSE <<>>

\* a lookup that keeps the blanks around the value
getValue_NoTrim(text, label) ==
  LET all == split(text, "\n")
      trimmed == [k \in 1..Len(all) |-> trim(all[k])]
      NonEmpty(l) == l # <<>>
      lines == SelectSeq(trimmed, NonEmpty)
      prefix == toUpperCase(label) \o <<" ", ":">>
      Labelled(l) == Len(l) >= Len(prefix) /\ SubSeq(toUpperCase(l), 1, Len(prefix)) = prefix
      found == SelectSeq(lines, Labelled)
  IN  IF found = <<>> THEN <<>>
      ELSE LET line == found[1]
               colon == CHOOSE i \in 1..Len(line) :
                          line[i] = ":" /\ \A j \in 1..(i - 1) : line[j] # ":"
           IN  SubSeq(line, colon + 1, Len(line))

\* getValue (src/index.js 571-574) on the lines of text
getValue(text, label) ==
  LET all == split(text, "\n")
      trimmed == [k \in 1..Len(all) |-> trim(all[k])]
      NonEmpty(l) == l # <<>>
      lines == SelectSeq(trimmed, NonEmpty)
      prefix == toUpperCase(label) \o <<" ", ":">>
      Labelled(l) == Len(l) >= Len(prefix) /\ SubSeq(toUpperCase(l), 1, Len(prefix)) = prefix
      found == SelectSeq(lines, Labelled)
  IN  IF found = <<>> THEN <<>>
      ELSE LET line == found[1]
               colon == CHOOSE i \in 1..Len(line) :
                          line[i] = ":" /\ \A j \in 1..(i - 1) : line[j] # ":"
           IN  trim(SubSeq(line, colon + 1, Len(line)))

\* the labels getValue looks for (src/index.js 580-592)
fieldLabels ==
  [owner |-> <<"O","W","N","E","R">>, snOnt |-> <<"S","N"," ","O","N","T">>, nikOnt |-> <<"N","I","K"," ","O","N","T">>,
   stbId |-> <<"S","T","B"," ","I","D">>, nikStb |-> <<"N","I","K"," ","S","T","B">>]

\* the pattern lists handed to findValue, the same in the three branches
\* (src/index.js 534-545, 557-567, 580-592)
fieldRules ==
  [owner |-> << LabelRule(<<"O","W","N","E","R">>, <<>>, FALSE) >>,
   snOnt |-> << LabelRule(<<"S","N">>, <<"O","N","T">>, FALSE), BrandRule(<<"Z","T","E","G">>), BrandRule(<<"H","W","T","C">>),
                BrandRule(<<"H","U","A","W">>), BrandRule(<<"F","H","T","T">>), BrandRule(<<"F","I","B","R">>) >>,
   nikOnt |-> << LabelRule(<<"N","I","K">>, <<"O","N","T">>, TRUE) >>,
   stbId |-> << LabelRule(<<"S","T","B">>, <<"I","D">>, FALSE) >>,
   nikStb |-> << LabelRule(<<"N","I","K">>, <<"S","T","B">>, TRUE) >>]

parseAktivasi(text) ==
  LET owner == detectOwner(text)
      byRules(f) == findValue(text, fieldRules[f])
      \* getValue(label) || findValue([...])
      byLabel(f) == IF getValue(text, fieldLabels[f]) # <<>>
                      THEN getValue(text, fieldLabels[f]) ELSE byRules(f)
  IN
  IF owner # <<>>
    THEN [branch |-> owner, owner |-> owner,
          snOnt |-> byRules("snOnt"), nikOnt |-> byRules("nikOnt"),
          stbId |-> byRules("stbId"), nikStb |-> byRules("nikStb")]
    ELSE [branch |-> <<"G","e","n","e","r","i","c">>, owner |-> byLabel("owner"),
          snOnt |-> byLabel("snOnt"), nikOnt |-> byLabel("nikOnt"),
          stbId |-> byLabel("stbId"), nikStb |-> byLabel("nikStb")]

(***************************************************************************)
(* SpecParse: parseAktivasi applied to the text after "/aktivasi": a text  *)
(* of up to MaxLines lines, or the block of the three labelled lines in    *)
(* some order.                                                             *)
(***************************************************************************)
MaxLines == 2

\* lines: labelled lines, a label with nothing after it, a label without the
\* blank before the colon, bare serial numbers of two brands, dialect keywords
ParseTexts ==
  LET ParseLines ==
        { <<"O","W","N","E","R"," ",":"," ","B","G","E","S">>, <<"S","N"," ","O","N","T"," ",":"," ","Z","T","E","G","1","2","3","4">>, <<"N","I","K"," ","O","N","T"," ",":"," ","8","8","8","8","9","9","9","9">>,
          <<"S","N"," ","O","N","T"," ",":">>, <<"s","n"," ","o","n","t",":"," ","h","w","t","c","5","5">>, <<"F","I","B","R","9"," ","h","u","a","w","8">>,
          <<"i","n","d","i","b","i","z">>, <<"t","s","e","l"," ","H","S","I">>, <<"T","s","e","l"," ","w","m","s">>, <<"m","w","s">>, <<"T","S","E","L">> }
      RECURSIVE joinLines(_)
      joinLines(ls) ==
        IF Len(ls) = 1 THEN ls[1] ELSE ls[1] \o <<"\n">> \o joinLines(Tail(ls))
      Block == { <<"O","W","N","E","R"," ",":"," ","B","G","E","S">>,
                 <<"S","N"," ","O","N","T"," ",":"," ","Z","T","E","G","1","2","3","4">>,
                 <<"N","I","K"," ","O","N","T"," ",":"," ","8","8","8","8","9","9","9","9">> }
  IN  { joinLines(ls) : ls \in UNION { [1..n -> ParseLines] : n \in 1..MaxLines } }
        \cup { joinLines(ls) : ls \in { f \in [1..3 -> Block] : { f[k] : k \in 1..3 } = Block } }

InitParse ==
  /\ sheet = <<HeaderRow>>
  /\ users \in UserTables
  /\ handler = [h \in Handlers |-> Idle]
  /\ fn \in [name : {"parseAktivasi"}, text : ParseTexts, done : {FALSE}, parsed : {<<>>}]

ApplyParse ==
  /\ fn.name = "parseAktivasi"
  /\ ~fn.done
  /\ fn' = [fn EXCEPT !.done = TRUE, !.parsed = parseAktivasi(fn.text)]
  /\ UNCHANGED <<sheet, users, handler>>

SpecParse == InitParse /\ [][ApplyParse]_vars


(***************************************************************************)
(* SpecLabel: one /aktivasi message from any sender, handled alone, with a *)
(* user table that may hold an active row whose handle cell is empty.      *)
(***************************************************************************)
uBlank == UserRow(<<>>, <<>>, AKTIF)

InitLabel ==
  /\ sheet \in InitSheets
  /\ users \in UserTables \cup { <<UserHeader, uBlank, uAdmin, uTek>> }
  /\ handler = [h \in Handlers |-> Idle]
  /\ fn = NoFn

NextLabel ==
  \/ \E m \in AktivasiMessages({"private"}, Senders, FullDrafts) : Receive(1, m)
  \/ UserReadOk(1) \/ UserReadFail(1)
  \/ SheetReadOk(1) \/ SheetReadFail(1)
  \/ AppendOk(1) \/ WriteFail(1)

SpecLabel == InitLabel /\ [][NextLabel]_vars

(***************************************************************************)
(* SpecSerial: /aktivasi handlers run one at a time, from a store whose    *)
(* data rows have pairwise distinct natural keys; nothing else writes.     *)
(***************************************************************************)
NextSerial ==
  \E h \in Handlers :
    \/ /\ \A g \in Handlers : ~InFlight(g)
       /\ \E m \in AktivasiMessages({"private"}, { <<"A">>, <<"t">> }, FullDrafts) :
            Receive(h, m)
    \/ UserReadOk(h) \/ UserReadFail(h)
    \/ SheetReadOk(h) \/ SheetReadFail(h)
    \/ AppendOk(h) \/ WriteFail(h)

SpecSerial == InitAkt /\ [][NextSerial]_vars


(***************************************************************************)
(* SpecUsers: one /aktivasi message from any sender, handled alone, while  *)
(* the USER sheet is edited by its maintainers: getUserData reads the      *)
(* sheet anew on every call, so the handler sees the table as it is at the *)
(* moment of its read.                                                     *)
(***************************************************************************)
EditUsers ==
  /\ users' \in (UserTables \cup
                   { <<UserHeader, uBlank, uAdmin, uTek>>,
                     <<UserHeader, uAdmin, UserRow(<<"t">>, <<>>, <<"O","F","F">>), uOff>> })
                  \ {users}
  /\ UNCHANGED <<sheet, handler, fn>>

NextUsers ==
  \/ NextLabel
  \/ EditUsers

SpecUsers == InitLabel /\ [][NextUsers]_vars


(***************************************************************************)
(* sendTelegram (src/index.js 140-174).  A text is the sequence of the     *)
(* lengths of its lines; a line of length 0 is blank and every other line  *)
(* holds a character that trim() keeps.  A message is the sequence of the  *)
(* indices of the lines it is made of, '' being <<>>.  Every call of       *)
(* sendWithRetry is a promise of its own: bot.sendMessage is called when   *)
(* sendWithRetry is called, the request then settles at some later time,   *)
(* and the chat receives a message when its request succeeds.              *)
(***************************************************************************)
maxLength == 4000

maxRetries == 3

\* (lines of a chunk, each followed by '\n').length
RECURSIVE chunkLength(_, _)
chunkLength(lines, chunk) ==
  IF chunk = <<>> THEN 0
  ELSE lines[chunk[1]] + 1 + chunkLength(lines, Tail(chunk))

\* the messages handed to sendWithRetry, in the order of the calls
sendTelegram(lines) ==
  LET RECURSIVE loop(_, _, _)
      loop(i, chunk, promises) ==
        IF i > Len(lines)
          THEN IF \E k \in 1..Len(chunk) : lines[chunk[k]] > 0
                 THEN Append(promises, chunk) ELSE promises
        ELSE IF chunkLength(lines, chunk) + lines[i] + 1 > maxLength
          THEN loop(i + 1, <<i>>, Append(promises, chunk))
          ELSE loop(i + 1, Append(chunk, i), promises)
      all == [k \in 1..Len(lines) |-> k]
  IN  IF chunkLength(lines, all) - 1 <= maxLength THEN <<all>> ELSE loop(1, <<>>, <<>>)

\* sendWithRetry(message): the first bot.sendMessage is under way
sendWithRetry(message) ==
  [message |-> message, status |-> "sending", retries |-> 0, attempts |-> 1, waited |-> <<>>]

\* a catch block that retries once more
afterSendFail_OneMore(p) ==
  IF p.retries <= maxRetries
    THEN [p EXCEPT !.status = "waiting", !.waited = Append(@, 1000 * (p.retries + 1))]
    ELSE [p EXCEPT !.status = "thrown"]

\* the catch block of sendWithRetry (src/index.js 147-154)
afterSendFail(p) ==
  IF p.retries < maxRetries
    THEN [p EXCEPT !.status = "waiting", !.waited = Append(@, 1000 * (p.retries + 1))]
    ELSE [p EXCEPT !.status = "thrown"]

(***************************************************************************)
(* SpecSend: one call of sendTelegram on a text of up to MaxSendLines      *)
(* lines; SpecSendFair adds that every request settles and every timer     *)
(* fires.                                                                  *)
(***************************************************************************)
MaxSendLines == 2

InitSend ==
  /\ sheet = <<HeaderRow>>
  /\ users \in UserTables
  /\ handler = [h \in Handlers |-> Idle]
  /\ fn \in [name : {"sendTelegram"},
             \* a blank line, a line of half the limit, a line over the limit
             lines : UNION { [1..n -> {0, 2000, 4001}] : n \in 1..MaxSendLines },
             called : {FALSE}, promises : {<<>>}, chat : {<<>>}]

CallSend ==
  /\ fn.name = "sendTelegram"
  /\ ~fn.called
  /\ fn' = [fn EXCEPT !.called = TRUE,
       !.promises = [k \in 1..Len(sendTelegram(fn.lines)) |->
                       sendWithRetry(sendTelegram(fn.lines)[k])]]
  /\ UNCHANGED <<sheet, users, handler>>

\* a request succeeds: the chat receives the message
SendOk(k) ==
  /\ fn.promises[k].status = "sending"
  /\ fn' = [fn EXCEPT !.promises[k].status = "sent", !.chat = Append(@, k)]
  /\ UNCHANGED <<sheet, users, handler>>

\* a request fails
SendFail(k) ==
  /\ fn.promises[k].status = "sending"
  /\ fn' = [fn EXCEPT !.promises[k] = afterSendFail(@)]
  /\ UNCHANGED <<sheet, users, handler>>

\* the timer of line 150 fires: sendWithRetry(message, retries + 1)
TimerFires(k) ==
  /\ fn.promises[k].status = "waiting"
  /\ fn' = [fn EXCEPT !.promises[k].status = "sending",
                      !.promises[k].retries = @ + 1,
                      !.promises[k].attempts = @ + 1]
  /\ UNCHANGED <<sheet, users, handler>>

NextSend ==
  \/ CallSend
  \/ \E k \in 1..Len(fn.promises) : SendOk(k) \/ SendFail(k) \/ TimerFires(k)

SpecSend == InitSend /\ [][NextSend]_vars

SpecSendFair == SpecSend /\ WF_vars(NextSend)


(***************************************************************************)
(* SpecAnchor: filterDataByPeriod applied once with a date argument that   *)
(* holds no d/m/yyyy or d-m-yyyy date: a word, an ISO date, a two-digit    *)
(* year, dots for separators, a day and a month only.                      *)
(***************************************************************************)
InitAnchor ==
  /\ sheet = <<HeaderRow>>
  /\ users \in UserTables
  /\ handler = [h \in Handlers |-> Idle]
  /\ fn \in [name : {"filterDataByPeriod"}, data : PeriodSheets,
             period : {"daily", "weekly", "monthly"},
             customDate : { <<"a","b","c">>, <<"2","0","2","5","-","0","3","-","0","5">>, <<"5","/","3","/","2","5">>, <<"5",".","3",".","2","0","2","5">>, <<"5","/","3">> },
             now : { DaysFromCivil(2025, 3, 2) * 24 + 3,
                     DaysFromCivil(2025, 3, 2) * 24 + 20,
                     DaysFromCivil(2025, 3, 31) * 24 + 20 },
             off : {-5, 0, 7},
             done : {FALSE}, result : {<<>>}]

SpecAnchor == InitAnchor /\ [][ApplyFilter]_vars


(***************************************************************************)
(* Claims.                                                                 *)
(***************************************************************************)
Done(h) == handler[h].pc = "done"

Cmd(h) == handler[h].msg.cmd

Rows(store) == { store[i] : i \in 2..Len(store) }

\* h's read-all of the record store has returned
HasRead(h) == handler[h].calls.read = 1 /\ "read" \notin handler[h].failed

\* C1 as stated: under concurrently running /aktivasi handlers, from a store
\* with pairwise distinct natural keys, no two data rows of the store ever
\* have the same (SN ONT, NIK ONT) pair, compared case-insensitively.
C1_KeysAlwaysUnique == KeysUnique(sheet)

\* the step is h's successful append
Appends(h) ==
  /\ handler[h].pc = "write"
  /\ Cmd(h) = "aktivasi"
  /\ handler'[h].reply = "saved"

\* C1 amended: an /aktivasi append made while the store still equals the rows
\* that handler read (no other write landed since its read-all) keeps the
\* natural keys of the data rows pairwise distinct.
C1_FreshAppendKeepsKeysUnique ==
  [][\A h \in Handlers :
       (Appends(h) /\ sheet = handler[h].data /\ KeysUnique(sheet))
         => KeysUnique(sheet')]_vars

\* C1 witness: a handler appended to a non-empty store equal to what it read
C1_Witness ==
  \E h \in Handlers :
    /\ Done(h) /\ handler[h].reply = "saved"
    /\ Len(handler[h].data) >= 2
    /\ sheet = Append(handler[h].data, handler[h].pending[1])
    /\ KeysUnique(sheet)

\* C2 as stated: after a /clean that dropped at least one row completes with
\* no other handler running, the record store is exactly the header followed
\* by the surviving rows, so its keys are pairwise distinct and no data row
\* has an empty SN ONT or NIK ONT.
C2_CleanLeavesOnlySurvivors ==
  \A h \in Handlers :
    (/\ Done(h) /\ Cmd(h) = "clean" /\ handler[h].reply = "cleaned"
     /\ \A g \in Handlers \ {h} : handler[g].pc = "idle")
      => /\ sheet = handler[h].pending
         /\ KeysUnique(sheet)
         /\ \A r \in Rows(sheet) : r.sn # <<>> /\ r.nik # <<>>

\* the data rows of data at the indices in keep, in their order
RECURSIVE PickRows(_, _, _)
PickRows(data, keep, i) ==
  IF i > Len(data) THEN <<>>
  ELSE (IF i \in keep THEN <<data[i]>> ELSE <<>>) \o PickRows(data, keep, i + 1)

\* the first occurrence of each natural key whose two fields are non-empty
FirstOccurrences(data) ==
  { i \in 2..Len(data) :
      /\ data[i].sn # <<>>
      /\ data[i].nik # <<>>
      /\ \A j \in 2..(i - 1) : ~SameKey(data[j], data[i]) }

Survivors(data) == <<data[1]>> \o PickRows(data, FirstOccurrences(data), 2)

\* C3 as stated: for every sequence of data rows /clean computes the header
\* plus, in order, exactly the first occurrence of each case-insensitive
\* (SN ONT, NIK ONT) pair with both fields non-empty, and reports the number
\* of data rows minus the number of surviving data rows.
C3_DedupKeepsFirstOccurrences ==
  \A h \in Handlers :
    (Cmd(h) = "clean" /\ HasRead(h) /\ Len(handler[h].data) > 1) =>
      IF handler[h].reply = "alreadyClean"
        THEN Survivors(handler[h].data) = handler[h].data
        ELSE /\ handler[h].pending = Survivors(handler[h].data)
             /\ handler[h].duplicateCount
                  = Len(handler[h].data) - Len(handler[h].pending)

\* C4 as stated: when an /aktivasi append lands after /clean's read-all and
\* before /clean's range replace, the appended row is absent from the record
\* store after both handlers have finished.
C4_RacingAppendIsLost ==
  \A c, a \in Handlers :
    (/\ Done(c) /\ Cmd(c) = "clean" /\ handler[c].reply = "cleaned"
     /\ Done(a) /\ Cmd(a) = "aktivasi" /\ handler[a].reply = "saved"
     /\ \E k \in 1..Len(handler[c].raced) : handler[c].raced[k] = handler[a].pending[1])
      => handler[a].pending[1] \notin Rows(sheet)

\* h's user-store read has returned an active user row
HasUser(h) == handler[h].calls.user = 1 /\ handler[h].user # NoUser

\* C5: an /aktivasi submission from an active user whose draft has an empty
\* snOnt or nikOnt ends with the missing-fields reply naming exactly the empty
\* fields, without any read of or write to the record store; a draft with both
\* non-empty goes on to the read-all of the duplicate check.
C5_RequiredFieldGate ==
  \A h \in Handlers :
    (Cmd(h) = "aktivasi" /\ HasUser(h) /\ handler[h].msg.hasText) =>
      LET d == handler[h].msg.draft IN
      IF d.snOnt = <<>> \/ d.nikOnt = <<>>
        THEN /\ Done(h) /\ handler[h].reply = "missing"
             /\ handler[h].calls.read = 0 /\ handler[h].calls.write = 0
             /\ \A f \in {"SN ONT", "NIK ONT"} :
                  (\E k \in 1..Len(handler[h].missing) : handler[h].missing[k] = f)
                    <=> (IF f = "SN ONT" THEN d.snOnt ELSE d.nikOnt) = <<>>
        ELSE handler[h].pc = "read" \/ handler[h].calls.read = 1

\* C5 witness: a draft with only NIK ONT empty was rejected
C5_Witness ==
  \E h \in Handlers :
    /\ Cmd(h) = "aktivasi" /\ HasUser(h)
    /\ handler[h].msg.draft.snOnt # <<>> /\ handler[h].msg.draft.nikOnt = <<>>
    /\ handler[h].reply = "missing"

\* some data row has the candidate's SN ONT and NIK ONT, ignoring case
KeyPresent(data, draft) ==
  \E i \in 2..Len(data) :
    /\ toUpperCase(data[i].sn) = toUpperCase(draft.snOnt)
    /\ toUpperCase(data[i].nik) = toUpperCase(draft.nikOnt)

\* C6: the duplicate check reports a duplicate exactly when some data row
\* (header excluded) equals the candidate on SN ONT and on NIK ONT, both
\* compared case-insensitively.
C6_DuplicateIffBothFieldsMatch ==
  \A h \in Handlers :
    (Cmd(h) = "aktivasi" /\ HasRead(h)) =>
      ((handler[h].reply = "duplicate")
         <=> KeyPresent(handler[h].data, handler[h].msg.draft))

\* C6 witness: a duplicate found on a row that differs in case, in a store
\* that also holds a row matching on one field only
C6_Witness ==
  \E h \in Handlers :
    /\ Cmd(h) = "aktivasi" /\ HasRead(h) /\ handler[h].reply = "duplicate"
    /\ \A i \in 2..Len(handler[h].data) :
         handler[h].data[i].sn # handler[h].msg.draft.snOnt
    /\ \E i \in 2..Len(handler[h].data) :
         /\ toUpperCase(handler[h].data[i].sn) = toUpperCase(handler[h].msg.draft.snOnt)
         /\ toUpperCase(handler[h].data[i].nik) # toUpperCase(handler[h].msg.draft.nikOnt)

\* C7: once /aktivasi has found the candidate's key in the rows it read, the
\* handler is finished with the duplicate reply, has made no write call and
\* holds no row to append; the step that finds it leaves the store as it was.
C7_DuplicateLeavesStore ==
  [][\A h \in Handlers :
       (/\ Cmd(h)' = "aktivasi" /\ HasRead(h)'
        /\ KeyPresent(handler'[h].data, handler'[h].msg.draft))
         => /\ handler'[h].pc = "done"
            /\ handler'[h].reply = "duplicate"
            /\ handler'[h].calls.write = 0
            /\ handler'[h].pending = <<>>
            /\ (handler[h].pc = "read" => sheet' = sheet)]_vars

\* C7 witness: a submission was rejected as a duplicate
C7_Witness ==
  \E h \in Handlers :
    /\ Cmd(h) = "aktivasi" /\ handler[h].reply = "duplicate"
    /\ handler[h].data = sheet

\* the user table has an active row for the sender with role ADMIN
ActiveAdmin(table, username) ==
  \E i \in 2..Len(table) :
    /\ normHandle(table[i].handle) = normHandle(username)
    /\ toUpperCase(table[i].status) = AKTIF
    /\ toUpperCase(table[i].role) = ADMIN

\* the user table has an active row for the sender
ActiveUser(table, username) ==
  \E i \in 2..Len(table) :
    /\ normHandle(table[i].handle) = normHandle(username)
    /\ toUpperCase(table[i].status) = AKTIF

\* C8 as stated: an admin-only command from a sender who is not an active
\* ADMIN is answered with access-denied, without any read of or write to the
\* record store.
C8_NonAdminIsDenied ==
  \A h \in Handlers :
    (/\ Done(h) /\ AdminOnly(handler[h].msg)
     /\ ~ActiveAdmin(users, handler[h].msg.username))
      => /\ handler[h].reply = "denied"
         /\ handler[h].calls.read = 0 /\ handler[h].calls.write = 0

\* C8 amended: an admin-only command from a sender who is not an active ADMIN
\* makes no read of and no write to the record store; it is answered with
\* access-denied in a private chat and gets no reply at all in a group or
\* supergroup chat.
C8_NonAdminNeverReachesStore ==
  \A h \in Handlers :
    (/\ handler[h].pc # "idle" /\ AdminOnly(handler[h].msg)
     /\ ~ActiveAdmin(users, handler[h].msg.username))
      => /\ handler[h].calls.read = 0 /\ handler[h].calls.write = 0
         /\ handler[h].pc \in {"user", "done"}
         /\ Done(h) =>
              handler[h].reply = IF InGroup(handler[h].msg) THEN "none" ELSE "denied"

\* C8 witness: an active user without the ADMIN role was denied
C8_Witness ==
  \E h \in Handlers :
    /\ Done(h) /\ AdminOnly(handler[h].msg) /\ HasUser(h)
    /\ handler[h].reply = "denied"

\* C9 as stated: whenever a call to the table service fails while a command
\* is handled, the sender gets the system-error notification and no call is
\* made twice.
C9_StoreFailureIsReported ==
  \A h \in Handlers :
    (Done(h) /\ handler[h].failed # {})
      => /\ handler[h].reply = "sysError"
         /\ \A c \in {"user", "read", "write"} : handler[h].calls[c] <= 1

\* C10: the rows /exportcari exports are exactly the data rows whose
\* technician cell equals the requesting active user's label, both without
\* their first '@' and ignoring case, in store order; nothing is exported
\* unless the sender is an active user.
C10_ExportOwnRows ==
  \A h \in Handlers :
    (Cmd(h) = "exportcari" /\ Done(h)) =>
      LET own == SelectSeq(DataRows(handler[h].data),
                   LAMBDA row : normHandle(row.tek) = normHandle(handler[h].user.handle))
      IN
      /\ handler[h].reply = "csv" =>
           /\ ActiveUser(users, handler[h].msg.username)
           /\ normHandle(handler[h].user.handle) = normHandle(handler[h].msg.username)
           /\ handler[h].export = own
      /\ handler[h].reply # "csv" => handler[h].export = <<>>
      /\ (HasRead(h) /\ own # <<>>) => handler[h].reply = "csv"
      /\ ~ActiveUser(users, handler[h].msg.username) => handler[h].reply # "csv"

\* C10 witness: an export that holds some rows of the store and leaves out others
C10_Witness ==
  \E h \in Handlers :
    /\ Cmd(h) = "exportcari" /\ handler[h].reply = "csv"
    /\ Len(handler[h].export) < Len(handler[h].data) - 1
    /\ \E k \in 1..Len(handler[h].export) :
         handler[h].export[k].tek # handler[h].user.handle

(***************************************************************************)
(* Claims on the period filter (SpecPeriod).                               *)
(***************************************************************************)
Filtered == fn.name = "filterDataByPeriod" /\ fn.done

\* the days that have a row in the store
CoveredDays == FirstCovered..(FirstCovered + DaysCovered - 1)

\* the label is the label of a calendar day
Dated(label) == \E n \in CoveredDays : dateLabel(n) = label

\* that day
LabelDay(label) == CHOOSE n \in CoveredDays : dateLabel(n) = label

\* the data rows, in order, whose label names a day from first to last
RowsDated(data, first, last) ==
  LET Within(r) == Dated(r.date) /\ LabelDay(r.date) >= first /\ LabelDay(r.date) <= last
  IN  SelectSeq(DataRows(data), Within)

\* the day the date argument names
CustomDay(customDate) ==
  LET match == matchDatePattern(customDate)
  IN  DaysFromCivil(parseInt(match[3]), parseInt(match[2]), parseInt(match[1]))

\* the window the call computed, as startDate and endDate
CalledWindow ==
  periodWindow(fn.period,
    IF fn.customDate # <<>> THEN MidnightOf(CustomDay(fn.customDate), fn.off)
    ELSE startOfDay(fn.now, fn.off),
    fn.off)

MondayOnOrBefore(a) == a - ((WeekDay(a) + 6) % 7)

MonthFirst(a) == LET c == CivilFromDays(a) IN DaysFromCivil(c.year, c.month, 1)

MonthLast(a) == LET c == CivilFromDays(a) IN MonthFirst(a) + DaysInMonth(c.year, c.month) - 1

FirstDayOf(period, a) ==
  IF period = "daily" THEN a
  ELSE IF period = "weekly" THEN MondayOnOrBefore(a)
  ELSE MonthFirst(a)

LastDayOf(period, a) ==
  IF period = "daily" THEN a
  ELSE IF period = "weekly" THEN MondayOnOrBefore(a) + 6
  ELSE MonthLast(a)

\* C11: for every period and every anchor, filterDataByPeriod returns exactly
\* the data rows whose label is a date from the first calendar day of the
\* window [startDate, endDate] to its last one: rows of those two days are
\* in, rows of the day before and of the day after are out, rows whose label
\* is no date are out.
C11_RowsOfWindowDays ==
  Filtered =>
    fn.result = RowsDated(fn.data, DayAt(CalledWindow.startDate, fn.off),
                                   DayAt(CalledWindow.endDate, fn.off))

\* C12: for every anchor date the weekly filter returns exactly the rows
\* dated from the Monday on or before the anchor to the Sunday six days
\* later; the row of the Monday after is out.  Without a date argument the
\* anchor is the host's current day.
C12_WeeklyMondayToSunday ==
  (Filtered /\ fn.period = "weekly") =>
    LET a == IF fn.customDate # <<>> THEN CustomDay(fn.customDate)
             ELSE DayAt(fn.now, fn.off)
    IN  fn.result = RowsDated(fn.data, MondayOnOrBefore(a), MondayOnOrBefore(a) + 6)

\* C13: without a date argument the windows are those of the current day in
\* Asia/Jakarta, on every host and at every time of day; the row labelled
\* with today's getTodayDateString is in the daily result.
C13_DefaultAnchorIsJakartaToday ==
  (Filtered /\ fn.customDate = <<>>) =>
    LET a == DayAt(fn.now, JakartaOffset)
    IN  /\ fn.result = RowsDated(fn.data, FirstDayOf(fn.period, a), LastDayOf(fn.period, a))
        /\ fn.period = "daily" =>
             \E i \in 1..Len(fn.result) : fn.result[i].date = getTodayDateString(fn.now)

(***************************************************************************)
(* Claims on the group counts (SpecGroup).                                 *)
(***************************************************************************)
Grouped == fn.name = "sortedGroups" /\ fn.done

\* the groups of the cells: their keys, without the dash group for /topteknisi
GroupsOf(cells, skipDash) ==
  { groupKey(cells[i]) : i \in 1..Len(cells) } \ (IF skipDash THEN { <<"-">> } ELSE {})

MembersOf(cells, key) == { i \in 1..Len(cells) : groupKey(cells[i]) = key }

FirstMember(cells, key) ==
  CHOOSE i \in MembersOf(cells, key) : \A j \in MembersOf(cells, key) : i <= j

\* C14: the report lists every group once, with its count, in descending
\* order of count, and groups with equal counts in the order in which their
\* first members occur in the input, whatever the labels are.
C14_DescendingThenFirstSeen ==
  Grouped =>
    LET r == fn.result
        cells == fn.cells
    IN  /\ { r[k].key : k \in 1..Len(r) } = GroupsOf(cells, fn.skipDash)
        /\ Len(r) = Cardinality(GroupsOf(cells, fn.skipDash))
        /\ \A k \in 1..Len(r) : r[k].count = Cardinality(MembersOf(cells, r[k].key))
        /\ \A k, l \in 1..Len(r) :
             k < l =>
               \/ r[k].count > r[l].count
               \/ /\ r[k].count = r[l].count
                  /\ FirstMember(cells, r[k].key) < FirstMember(cells, r[l].key)

(***************************************************************************)
(* Claims on the CSV export (SpecCsv).  The reader of the exported file is *)
(* a delimited-text parser in the manner of RFC 4180: fields are separated *)
(* by commas; a field that opens with a double quote runs to its closing   *)
(* quote, a doubled quote inside standing for one quote; a record ends at  *)
(* a line break outside quotes, which is LF, CR LF or CR.                  *)
(***************************************************************************)
decodeCSV(csv) ==
  LET RECURSIVE dec(_, _, _, _, _)
      dec(i, mode, field, rec, recs) ==
        IF i > Len(csv)
          THEN IF mode = "start" /\ rec = <<>> THEN recs
               ELSE Append(recs, Append(rec, field))
        ELSE LET c == csv[i]
                 breakLen == IF c = "\r" /\ i < Len(csv) /\ csv[i + 1] = "\n" THEN 2 ELSE 1
             IN
          IF mode = "quoted"
            THEN IF c = "\""
                   THEN IF i < Len(csv) /\ csv[i + 1] = "\""
                          THEN dec(i + 2, "quoted", Append(field, "\""), rec, recs)
                          ELSE dec(i + 1, "closed", field, rec, recs)
                   ELSE dec(i + 1, "quoted", Append(field, c), rec, recs)
          ELSE IF c = "," THEN dec(i + 1, "start", <<>>, Append(rec, field), recs)
          ELSE IF c = "\n" \/ c = "\r"
            THEN dec(i + breakLen, "start", <<>>, <<>>, Append(recs, Append(rec, field)))
          ELSE IF c = "\"" /\ mode = "start" /\ field = <<>>
            THEN dec(i + 1, "quoted", <<>>, rec, recs)
          ELSE dec(i + 1, "plain", Append(field, c), rec, recs)
  IN  dec(1, "start", <<>>, <<>>, <<>>)

Exported == fn.name = "generateCSV" /\ fn.done

\* C15: reading generateCSV's output back with a standard parser gives the
\* header line and then, record by record, the original cell values, for
\* cells that may hold commas, double quotes and line breaks; a cell is
\* written in quotes exactly when it holds a comma, a quote or a line break.
C15_CsvRoundTrip ==
  Exported =>
    /\ decodeCSV(fn.csv) = <<CsvHeaders>> \o fn.data
    /\ \A i \in 1..Len(fn.data) : \A k \in 1..Len(fn.data[i]) :
         LET cell == fn.data[i][k] IN
         (csvCell(cell) # cell) <=>
           \E c \in {",", "\"", "\n", "\r"} : includes(cell, <<c>>)

(***************************************************************************)
(* Claims on parseAktivasi (SpecParse).                                    *)
(***************************************************************************)
Parsed == fn.name = "parseAktivasi" /\ fn.done

\* the text holds one of the words, in any case
Mentions(text, words) == \E w \in words : includes(toUpperCase(text), w)

BgesMarkers == { <<"I","N","D","I","B","I","Z">>, <<"H","S","I">> }
WmsMarkers == { <<"W","M","S">>, <<"M","W","S">> }
TselMarkers == { <<"T","S","E","L">> }

\* C16: the dialect of a text is BGES when it holds a BGES marker, else WMS
\* when it holds a WMS marker, else TSEL when it holds TSEL, and Generic
\* when it holds none of them.
C16_DialectPriority ==
  Parsed =>
    LET t == fn.text
        b == fn.parsed.branch
    IN  /\ Mentions(t, BgesMarkers) => b = <<"B","G","E","S">>
        /\ (~Mentions(t, BgesMarkers) /\ Mentions(t, WmsMarkers)) => b = <<"W","M","S">>
        /\ (~Mentions(t, BgesMarkers \cup WmsMarkers) /\ Mentions(t, TselMarkers))
             => b = <<"T","S","E","L">>
        /\ ~Mentions(t, BgesMarkers \cup WmsMarkers \cup TselMarkers) => b = <<"G","e","n","e","r","i","c">>

\* a text with markers of the three dialects has been classified
C16_Witness ==
  /\ Parsed
  /\ Mentions(fn.text, BgesMarkers)
  /\ Mentions(fn.text, WmsMarkers)
  /\ Mentions(fn.text, TselMarkers)
  /\ fn.parsed.branch = <<"B","G","E","S">>

LabelledBlock == { <<"O","W","N","E","R"," ",":"," ","B","G","E","S">>, <<"S","N"," ","O","N","T"," ",":"," ","Z","T","E","G","1","2","3","4">>, <<"N","I","K"," ","O","N","T"," ",":"," ","8","8","8","8","9","9","9","9">> }

\* the text consists of the three labelled lines, in some order
IsLabelledBlock(text) ==
  LET ls == split(text, "\n")
  IN  Len(ls) = 3 /\ { ls[k] : k \in 1..3 } = LabelledBlock

\* C17: the text made of the lines 'OWNER : BGES', 'SN ONT : ZTEG1234' and
\* 'NIK ONT : 88889999' is parsed by the Generic branch, with snOnt
\* 'ZTEG1234', nikOnt '88889999' and owner 'BGES', and it passes the
\* required-field validation.
C17_LabelledBlockParses ==
  (Parsed /\ IsLabelledBlock(fn.text)) =>
    /\ fn.parsed.branch = <<"G","e","n","e","r","i","c">>
    /\ fn.parsed.snOnt = <<"Z","T","E","G","1","2","3","4">>
    /\ fn.parsed.nikOnt = <<"8","8","8","8","9","9","9","9">>
    /\ fn.parsed.owner = <<"B","G","E","S">>
    /\ missingFields(fn.parsed) = <<>>

\* the block in the order the claim gives has been parsed
C17_Witness ==
  /\ Parsed
  /\ fn.text = <<"O","W","N","E","R"," ",":"," ","B","G","E","S","\n","S","N"," ","O","N","T"," ",":"," ","Z","T","E","G","1","2","3","4","\n","N","I","K"," ","O","N","T"," ",":"," ","8","8","8","8","9","9","9","9">>
  /\ fn.parsed.branch = <<"G","e","n","e","r","i","c">>

\* the first non-empty string of a list, '' when there is none
FirstNonEmpty(strs) ==
  IF \A k \in 1..Len(strs) : strs[k] = <<>> THEN <<>>
  ELSE strs[CHOOSE k \in 1..Len(strs) : strs[k] # <<>> /\ \A j \in 1..(k - 1) : strs[j] = <<>>]

\* what each rule of a field yields on the text, in declared order; in the
\* Generic branch the labelled-line rule comes first
RuleYields(text, field, generic) ==
  (IF generic THEN << getValue(text, fieldLabels[field]) >> ELSE <<>>)
    \o [k \in 1..Len(fieldRules[field]) |-> execRule(text, fieldRules[field][k])]

OwnUserRows(username) ==
  { i \in 2..Len(users) :
      /\ normHandle(users[i].handle) = normHandle(username)
      /\ toUpperCase(users[i].status) = AKTIF }

\* the label the first of them stores
StoredLabel(username) ==
  users[CHOOSE i \in OwnUserRows(username) : \A j \in OwnUserRows(username) : i <= j].handle

\* C19: the technician cell of the row a handler builds, and of the row it
\* has appended, is the label stored in the submitter's user row when that
\* cell is not empty, and the submitter's bare handle when it is empty.
C19_TechnicianIsStoredLabel ==
  \A h \in Handlers :
    (Cmd(h) = "aktivasi" /\ handler[h].pending # <<>>) =>
      LET u == handler[h].msg.username
          label == IF StoredLabel(u) # <<>> THEN StoredLabel(u) ELSE u
      IN  /\ OwnUserRows(u) # {}
          /\ handler[h].pending[1].tek = label
          /\ handler[h].reply = "saved" => sheet[Len(sheet)].tek = label

\* a row has been appended whose technician cell is the stored label, which
\* is not the sender's bare handle
C19_Witness ==
  \E h \in Handlers :
    /\ handler[h].reply = "saved"
    /\ sheet[Len(sheet)].tek = StoredLabel(handler[h].msg.username)
    /\ sheet[Len(sheet)].tek # handler[h].msg.username

\* the step is an accepted submission: a handler's append succeeds
Accepted == \E h \in Handlers : Appends(h)

\* C20: when /aktivasi handlers run one at a time and nothing else writes,
\* every store reached from a store with pairwise distinct natural keys has
\* pairwise distinct natural keys, and the store grows by exactly one row
\* per accepted submission and by none otherwise.
C20_SerialKeepsKeysUnique ==
  /\ []KeysUnique(sheet)
  /\ [][/\ Accepted => Len(sheet') = Len(sheet) + 1
        /\ ~Accepted => sheet' = sheet]_vars

\* two submissions have been accepted one after the other
C20_Witness ==
  /\ \A h \in Handlers : handler[h].reply = "saved"
  /\ Len(sheet) >= NumHandlers + 1
  /\ KeysUnique(sheet)

(***************************************************************************)
(* Claims on the user check of /aktivasi (SpecUsers).                      *)
(***************************************************************************)
\* C21: an /aktivasi handler goes past its user-store read only when that
\* read succeeds and the user table then holds an active row for the sender;
\* otherwise it ends there with no read of the record store and no append.
\* Every read of the record store and every append is made by a handler that
\* went past, and only an append changes the store.
C21_OnlyActiveUsersAppend ==
  /\ [][\A h \in Handlers :
          (Cmd(h) = "aktivasi" /\ handler[h].pc = "user" /\ handler'[h].pc # "user") =>
            \/ /\ ActiveUser(users, handler[h].msg.username)
               /\ "user" \notin handler'[h].failed
               /\ handler'[h].user # NoUser
            \/ /\ handler'[h].pc = "done"
               /\ handler'[h].user = NoUser
               /\ handler'[h].calls.read = 0 /\ handler'[h].calls.write = 0
               /\ sheet' = sheet]_vars
  /\ [](\A h \in Handlers :
          (Cmd(h) = "aktivasi"
           /\ (handler[h].pc \in {"read", "write"} \/ handler[h].calls.read > 0
               \/ handler[h].calls.write > 0 \/ handler[h].reply = "saved"))
            => (handler[h].user # NoUser /\ "user" \notin handler[h].failed))
  /\ [][sheet' # sheet => \E h \in Handlers : Appends(h) /\ handler[h].user # NoUser]_vars

\* a row was appended for a sender whose row has been deactivated since the
\* handler's user-store read
C21_Witness ==
  \E h \in Handlers :
    /\ handler[h].reply = "saved"
    /\ ~ActiveUser(users, handler[h].msg.username)


(***************************************************************************)
(* Claims on /clean (Spec, SpecPure).                                      *)
(***************************************************************************)
\* C22 as stated: when a /clean has reported removing duplicates and a second
\* /clean then reads the store as that /clean left it, no other handler
\* having run, the second one reports that the sheet is already clean and
\* makes no range replace.
C22_SecondCleanFindsNothing ==
  \A c1, c2 \in Handlers :
    (/\ c1 # c2
     /\ Done(c1) /\ Cmd(c1) = "clean" /\ handler[c1].reply = "cleaned"
     /\ Cmd(c2) = "clean" /\ HasRead(c2) /\ handler[c2].calls.write = 0
     /\ handler[c2].data = sheet
     /\ \A g \in Handlers \ {c1, c2} : handler[g].pc = "idle")
      => /\ Done(c2) /\ handler[c2].reply = "alreadyClean"
         /\ handler[c2].pending = <<>>


\* the rows /clean keeps: all of them when it reports a clean sheet
KeptByClean(h) ==
  IF handler[h].reply = "alreadyClean" THEN handler[h].data ELSE handler[h].pending

\* C23 as stated: /clean drops a data row only if its SN ONT or its NIK ONT
\* is empty or an earlier data row has the same (SN ONT, NIK ONT) pair
\* ignoring case, whatever the cells hold, a '-' included: every first
\* occurrence of a pair with both fields non-empty is among the rows kept.
C23_CleanDropsOnlyRepeatedKeys ==
  \A h \in Handlers :
    (Cmd(h) = "clean" /\ HasRead(h) /\ Len(handler[h].data) > 1) =>
      \A i \in FirstOccurrences(handler[h].data) :
        \E k \in 2..Len(KeptByClean(h)) : KeptByClean(h)[k] = handler[h].data[i]


(***************************************************************************)
(* Claims on the replies of /aktivasi (SpecAkt, SpecCmd, SpecLabel).       *)
(***************************************************************************)
\* C24: a handler hands over the success confirmation only in the step in
\* which its append call returns successfully, the store then holding its
\* row; when its append call fails the store is left as it was, the handler
\* ends with the system-error notification and is never confirmed.
C24_ConfirmationFollowsAppend ==
  /\ [][\A h \in Handlers :
          (handler'[h].reply = "saved" /\ handler[h].reply # "saved") =>
            /\ handler[h].pc = "write" /\ Cmd(h) = "aktivasi"
            /\ handler'[h].calls.write = 1
            /\ "write" \notin handler'[h].failed
            /\ sheet' = Append(sheet, handler[h].pending[1])]_vars
  /\ [][\A h \in Handlers :
          (handler[h].pc = "write" /\ "write" \in handler'[h].failed) =>
            /\ sheet' = sheet
            /\ handler'[h].pc = "done"
            /\ handler'[h].reply = "sysError"]_vars
  /\ [](\A h \in Handlers :
          "write" \in handler[h].failed =>
            (Done(h) /\ handler[h].reply = "sysError" /\ handler[h].calls.write = 1))

\* one submission's append failed and its row is not in the store, while
\* another submission was stored and confirmed
C24_Witness ==
  \E h, g \in Handlers :
    /\ "write" \in handler[h].failed /\ handler[h].reply = "sysError"
    /\ handler[h].pending[1] \notin Rows(sheet)
    /\ handler[g].reply = "saved"
    /\ handler[g].pending[1] \in Rows(sheet)


(***************************************************************************)
(* Claim on the labelled serial number without a value (SpecParse).        *)
(***************************************************************************)
\* some line of the text is the label 'SN ONT :' with nothing after it
HasEmptySerialLine(text) ==
  LET ls == split(text, "\n")
  IN  \E k \in 1..Len(ls) : toUpperCase(trim(ls[k])) = <<"S","N"," ","O","N","T"," ",":">>

\* no serial number with a brand prefix occurs in the text
NoBrandSerial(text) ==
  \A k \in 2..Len(fieldRules.snOnt) : execRule(text, fieldRules.snOnt[k]) = <<>>

\* C25 as stated: for a Generic text with a line 'SN ONT :' that has no value
\* and with no brand-prefixed serial number anywhere, the draft's snOnt is
\* empty whatever the other lines hold, and the required-field validation
\* names 'SN ONT' as missing.
C25_EmptyLabelledSerialIsMissing ==
  (/\ Parsed
   /\ fn.parsed.branch = <<"G","e","n","e","r","i","c">>
   /\ HasEmptySerialLine(fn.text)
   /\ NoBrandSerial(fn.text))
    => /\ fn.parsed.snOnt = <<>>
       /\ \E k \in 1..Len(missingFields(fn.parsed)) : missingFields(fn.parsed)[k] = "SN ONT"


(***************************************************************************)
(* Claims on sendTelegram (SpecSendFair, SpecSend).                        *)
(***************************************************************************)
Settled(p) == p.status \in {"sent", "thrown"}

\* C26: for every message, sendWithRetry makes at most 4 attempts, waits
\* 1000, 2000 and 3000 ms before the second, third and fourth, makes no
\* attempt after a success, throws only after the fourth failure, and in the
\* end has either delivered the message or thrown.
C26_BoundedSendRetry ==
  /\ [](\A k \in 1..Len(fn.promises) :
          LET p == fn.promises[k] IN
          /\ p.attempts >= 1 /\ p.attempts <= 4
          /\ Len(p.waited) = (IF p.status = "waiting" THEN p.attempts ELSE p.attempts - 1)
          /\ \A j \in 1..Len(p.waited) : p.waited[j] = 1000 * j
          /\ p.status = "thrown" => p.attempts = 4)
  /\ [][\A k \in 1..Len(fn.promises) :
          Settled(fn.promises[k]) => fn'.promises[k] = fn.promises[k]]_vars
  /\ <>(fn.called /\ \A k \in 1..Len(fn.promises) : Settled(fn.promises[k]))

\* a message was delivered by the fourth attempt while another one was given
\* up after four
C26_Witness ==
  /\ fn.name = "sendTelegram"
  /\ \E k, j \in 1..Len(fn.promises) :
       /\ fn.promises[k].status = "sent" /\ fn.promises[k].attempts = 4
       /\ fn.promises[j].status = "thrown"

\* C27 as stated: when a reply is split into chunks, the chat receives the
\* chunks in the order of the original text, whichever attempts fail and are
\* retried.
C27_ChunksArriveInTextOrder ==
  (fn.name = "sendTelegram" /\ Len(fn.promises) > 1) =>
    \A i, j \in 1..Len(fn.chat) : i < j => fn.chat[i] < fn.chat[j]


(***************************************************************************)
(* Claims on the group filter and on senders without a username (SpecCmd,  *)
(* SpecLabel).                                                             *)
(***************************************************************************)
\* C28: a message received in a group or supergroup chat whose command is
\* not /aktivasi ends the handler at once: no reply, no call to the user
\* store or to the record store, whoever sent it; the store is as it was.
C28_GroupChatGating ==
  /\ [](\A h \in Handlers :
          (handler[h].pc # "idle" /\ InGroup(handler[h].msg) /\ Cmd(h) # "aktivasi") =>
            /\ Done(h)
            /\ handler[h].reply = "none"
            /\ handler[h].calls = NoCalls
            /\ handler[h].failed = {})
  /\ [][\A h \in Handlers :
          (InGroup(handler'[h].msg) /\ Cmd(h)' # "aktivasi") => sheet' = sheet]_vars

\* the active admin's /clean, sent in a group chat, was ignored
C28_Witness ==
  \E h \in Handlers :
    /\ Done(h) /\ InGroup(handler[h].msg)
    /\ Cmd(h) = "clean" /\ handler[h].msg.bot = "index"
    /\ ActiveAdmin(users, handler[h].msg.username)
    /\ handler[h].reply = "none"
    /\ handler[h].calls = NoCalls


\* C29 as stated: whatever the user table holds, a message whose sender has
\* no username is matched to no user row: the handler's user is null, it
\* makes no read of the record store and no append.
C29_NoUsernameNoAuthority ==
  \A h \in Handlers :
    (handler[h].pc # "idle" /\ handler[h].msg.username = <<>>) =>
      /\ handler[h].user = NoUser
      /\ handler[h].pc \in {"user", "done"}
      /\ handler[h].calls.read = 0 /\ handler[h].calls.write = 0
      /\ handler[h].reply # "saved"


(***************************************************************************)
(* Claim on a date argument that holds no date (SpecAnchor).               *)
(***************************************************************************)
\* C30: when filterDataByPeriod is given a date argument in which the date
\* pattern matches nowhere, it returns no rows for every period: not the
\* rows of the window around now, not all rows.
C30_UnparseableAnchorGivesNoRows ==
  (Filtered /\ fn.customDate # <<>> /\ DateMatches(fn.customDate) = {}) =>
    fn.result = <<>>

\* the filter returned nothing where, with no date argument, it returns the
\* rows of the current window
C30_Witness ==
  /\ Filtered
  /\ fn.customDate # <<>> /\ DateMatches(fn.customDate) = {}
  /\ fn.result = <<>>
  /\ filterDataByPeriod(fn.data, fn.period, <<>>, fn.now, fn.off) # <<>>
  /\ Len(fn.data) > 1


====
